---- MODULE Spec2Model ----
(***************************************************************************)
(* Round selection, match-status inference, relevance filter, sorter and   *)
(* match normalization of the odds checker.                                *)
(*                                                                         *)
(* Time is kept in milliseconds since an arbitrary epoch, as the code      *)
(* keeps it (Date.getTime()).  The wall clock is the variable now; the     *)
(* code reads it with Date.now() / new Date() inside every function.       *)
(***************************************************************************)
EXTENDS Integers, Sequences, FiniteSets, TLC

VARIABLES
    now,             \* wall clock, ms
    matches,         \* cacheData.matches of the unified route: kickoff (fixture.date) of each cached match
    matchesPerRound, \* config.matchesPerRound of the unified route
    allMatches,      \* cacheData.response.matches of the Bundesliga routes: kickoff (status.utcTime) of each
    roundResp,       \* what the last round-selecting handler computed; fresh while the clock still shows the value it read
    kickoffTime,     \* kickoff of the match handed to the status functions (ms, or NaN)
    flags,           \* upstream status flags of that match
    cacheStatus,     \* fixture.status.short of that match
    dsStatus,        \* last result of determineStatus; fresh as above
    cmStatus,        \* last result of calculateMatchStatus; fresh as above
    xs,              \* array of normalized matches handed to the relevance filter / sorter
    fsOut,           \* what the last filter / sort call returned
    fsTwice,         \* what the same call returned when handed fsOut again
    fixtures,        \* the fixtures of an upstream payload, each written in the shape of the source asked for
    leagueArg,       \* leagueConfig argument of normalizeMatches and of the normalizers
    roundArg,        \* round argument of normalizeMatches and of the normalizers
    localOffset,     \* offset of the server's time zone from UTC, ms
    outA,            \* what normalizeAustrianWeekendMatch returned for the first fixture
    outB,            \* what normalizeGermanBundesligaMatch returned for it
    outC,            \* what normalizePinnacleMatch returned for it
    outBatch,        \* what the last call of normalizeMatches returned
    parsed,          \* the instant the last parse of the first fixture's timestamp gave
    response,        \* the matches a route put into its answer after attaching odds
    weekendMatches,  \* cacheData.weekendMatches of the flag-based league routes
    shown,           \* the status the Bundesliga page or the Bundesliga route last gave the match
    cache,           \* SimpleCache.cache: the entry {value, expiry} under each key, or Absent
    got,             \* what the last get / has / size / getOpenLigaFixtures call returned; fresh until the clock or the cache is next touched
    written,         \* history: the last set of each key, and whether a delete or clear came after it
    request          \* a request of the Bundesliga route under way: its position and what it has computed

roundVars  == <<matches, matchesPerRound, allMatches, roundResp>>
statusVars == <<kickoffTime, flags, cacheStatus, dsStatus, cmStatus>>
filterVars == <<xs, fsOut, fsTwice>>
normInputs == <<fixtures, leagueArg, roundArg, localOffset>>
normVars   == <<normInputs, outA, outB, outC, outBatch, parsed, response>>
cacheVars  == <<cache, got, written>>
finalVars  == <<weekendMatches, shown, cacheVars, request>>
laterVars  == <<filterVars, normVars, finalVars>>

vars == <<now, roundVars, statusVars, laterVars>>

---------------------------------------------------------------------------
(* Program constants *)

MINUTES_IN_MS     == 60 * 1000
MATCH_DURATION_MS == 105 * MINUTES_IN_MS
GRACE_PERIOD_MS   == 120 * MINUTES_IN_MS

\* determineStatus and the Bundesliga routes compare minutes (ms / 60000) with 120
GraceMinutes == 120

\* Bundesliga routes
StartRound        == 6
BLMatchesPerRound == 9
LastRound         == 34
Round6Start       == 44
Round6End         == 54
Round7End         == 63

\* getTime() of an Invalid Date; every comparison with it is false
NaN == -999999999

---------------------------------------------------------------------------
(* Bounds of the model *)

MaxLen      == 4    \* longest match list of the unified route
MaxPerRound == 2    \* largest matchesPerRound
MaxRuns     == 3    \* number of runs of equal kickoffs in a Bundesliga cache
MaxBatch    == 3    \* longest array handed to the relevance filter / sorter
MaxCached   == 2    \* longest weekendMatches cache of a flag-based league route
MaxSelected == 2    \* most matches of the round a request of the Bundesliga route works on

KickoffMinutes == {10, 40, 200}
OffsetMinutes  == {-1, 0, 1, 30, 90, 104, 105, 106, 119, 120, 121, 130, 150}
RunLens        == {1, 9}
FilterKickoffMinutes == {10, 11}
FilterNowMinutes     == {9, 10, 41, 129, 130, 131, 160}

Kickoffs == {m * MINUTES_IN_MS : m \in KickoffMinutes}
Instants == {(k + o) * MINUTES_IN_MS : k \in KickoffMinutes, o \in OffsetMinutes}

---------------------------------------------------------------------------
(* JavaScript helpers *)

Min(a, b) == IF a < b THEN a ELSE b
Max(a, b) == IF a > b THEN a ELSE b

\* Array.prototype.slice(start, end), indices 0-based, on a 1-based sequence
Slice(s, start, end) ==
    LET n  == Len(s)
        from == IF start < 0 THEN Max(n + start, 0) ELSE Min(start, n)
        to   == IF end < 0 THEN Max(n + end, 0) ELSE Min(end, n)
    IN  IF from >= to THEN <<>> ELSE SubSeq(s, from + 1, to)

\* a - b on numbers that may be NaN
Minus(a, b) == IF a = NaN \/ b = NaN THEN NaN ELSE a - b
\* a < b, a >= b on numbers that may be NaN
Less(a, b)   == a # NaN /\ b # NaN /\ a < b
AtLeast(a, b) == a # NaN /\ b # NaN /\ a >= b

\* truthiness of an optional boolean: "true", "false" or "undefined"
Truthy(f) == f = "true"

---------------------------------------------------------------------------
(* lib/leagues/utils: calculateCurrentRound, filterCurrentRoundMatches *)

\* the loop at lines 58-61: consecutive slices of perRound matches
RECURSIVE RoundsFrom(_, _, _)
RoundsFrom(ms, perRound, i) ==
    IF i >= Len(ms) THEN <<>>
    ELSE <<Slice(ms, i, i + perRound)>> \o RoundsFrom(ms, perRound, i + perRound)

\* a round that would still be current at exactly the grace period
RoundIsCurrentInclusive(roundMatches, t) ==
    LET lastKickoff == roundMatches[Len(roundMatches)]
        timeSinceLastKickoff == t - lastKickoff
    IN  timeSinceLastKickoff <= GRACE_PERIOD_MS

\* lines 68-75: a round is current while its LAST match kicked off less than
\* the grace period ago
RoundIsCurrent(roundMatches, t) ==
    LET lastKickoff == roundMatches[Len(roundMatches)]
        timeSinceLastKickoff == t - lastKickoff
    IN  timeSinceLastKickoff < GRACE_PERIOD_MS

\* falling back to the first round when all rounds are finished
AllFinishedFirst(rounds) == IF Len(rounds) = 0 THEN 0 ELSE 1

\* line 81: "If all rounds are finished, return the last round"
AllFinished(rounds) == Len(rounds)

\* the loop at lines 64-78; rounds are 1-indexed in the result
RECURSIVE FindRound(_, _, _)
FindRound(rounds, roundIndex, t) ==
    IF roundIndex >= Len(rounds) THEN AllFinished(rounds)
    ELSE LET roundMatches == rounds[roundIndex + 1]
         IN  IF Len(roundMatches) = 0 THEN FindRound(rounds, roundIndex + 1, t)
             ELSE IF RoundIsCurrent(roundMatches, t)
                  THEN roundIndex + 1
                  ELSE FindRound(rounds, roundIndex + 1, t)

calculateCurrentRound(ms, perRound, t) ==
    FindRound(RoundsFrom(ms, perRound, 0), 0, t)

filterCurrentRoundMatches(ms, currentRound, perRound) ==
    LET startIndex == (currentRound - 1) * perRound
        endIndex   == startIndex + perRound
    IN  Slice(ms, startIndex, endIndex)

---------------------------------------------------------------------------
(* app/api/matches/bundesliga/route.ts: round selection of GET *)

getMatchesForRound(all, roundNumber) ==
    IF roundNumber = 6 THEN Slice(all, Round6Start, Round6End)
    ELSE IF roundNumber = 7 THEN Slice(all, Round6End, Round7End)
    ELSE LET startIndex == (roundNumber - 6) * BLMatchesPerRound + Round6Start
             endIndex   == startIndex + BLMatchesPerRound
         IN  Slice(all, startIndex, endIndex)

\* lines 81-87: the latest kickoff of a non-empty round
RECURSIVE LastGameTime(_)
LastGameTime(roundMatches) ==
    IF Len(roundMatches) = 1 THEN roundMatches[1]
    ELSE Max(roundMatches[1], LastGameTime(Tail(roundMatches)))

\* lines 90-94: minutes since the last kickoff of the round, compared with 120
RouteRoundIsCurrent(roundMatches, t) ==
    t - LastGameTime(roundMatches) < GraceMinutes * (1000 * 60)

\* the while loop at lines 75-104
RECURSIVE RouteFindRound(_, _, _)
RouteFindRound(all, currentRound, t) ==
    IF currentRound > LastRound THEN currentRound
    ELSE LET roundMatches == getMatchesForRound(all, currentRound)
         IN  IF Len(roundMatches) = 0 THEN currentRound
             ELSE IF RouteRoundIsCurrent(roundMatches, t)
                  THEN currentRound
                  ELSE RouteFindRound(all, currentRound + 1, t)

---------------------------------------------------------------------------
(* app/api/matches/route.ts (main route): round selection of the German    *)
(* Bundesliga branch of GET                                                *)

MainRoundSlice(all, roundStartIndex) ==
    Slice(all, roundStartIndex, roundStartIndex + BLMatchesPerRound)

\* lines 404-422: minutes since the latest kickoff of the round, compared with 120
MainRoundIsCurrent(roundMatches, t) ==
    t - LastGameTime(roundMatches) < GraceMinutes * (1000 * 60)

\* the while loop at lines 398-433; the result is <<currentRound, roundStartIndex>>
RECURSIVE MainFindRound(_, _, _, _)
MainFindRound(all, currentRound, roundStartIndex, t) ==
    IF currentRound > LastRound THEN <<currentRound, roundStartIndex>>
    ELSE LET roundMatches == MainRoundSlice(all, roundStartIndex)
         IN  IF Len(roundMatches) = 0 THEN <<currentRound, roundStartIndex>>
             ELSE IF MainRoundIsCurrent(roundMatches, t)
                  THEN <<currentRound, roundStartIndex>>
                  ELSE MainFindRound(all, currentRound + 1,
                                     roundStartIndex + BLMatchesPerRound, t)

---------------------------------------------------------------------------
(* lib/match-normalizer: determineStatus *)

\* line 130: started || (minutesElapsed >= 0 && minutesElapsed < 120)
StartedOrInWindow(started, msElapsed) ==
    Truthy(started) \/ (AtLeast(msElapsed, 0) /\ Less(msElapsed, GraceMinutes * (1000 * 60)))

\* the finished flag tested before the cancelled flag
determineStatusFinishedFirst(kickoff, finished, started, cancelled, ongoing, t) ==
    IF Truthy(finished) THEN "FINISHED"
    ELSE IF Truthy(cancelled) THEN "CANCELLED"
    ELSE LET msElapsed == Minus(t, kickoff)
         IN  IF StartedOrInWindow(started, msElapsed) THEN "LIVE"
             ELSE IF Truthy(ongoing) THEN "LIVE"
             ELSE "SCHEDULED"

\* lines 116-138; the clock value t is what new Date() returns at line 126
determineStatus(kickoff, finished, started, cancelled, ongoing, t) ==
    IF Truthy(cancelled) THEN "CANCELLED"
    ELSE IF Truthy(finished) THEN "FINISHED"
    ELSE LET msElapsed == Minus(t, kickoff)
         IN  IF StartedOrInWindow(started, msElapsed) THEN "LIVE"
             ELSE IF Truthy(ongoing) THEN "LIVE"
             ELSE "SCHEDULED"

---------------------------------------------------------------------------
(* lib/leagues/utils: calculateMatchStatus *)

\* String.prototype.toUpperCase on the short codes of the model; calling it on
\* undefined raises a TypeError
ToUpperCase(str) ==
    CASE str = "undefined" -> "TypeError"
      [] str = "ft"        -> "FT"
      [] OTHER             -> str

\* truthiness of an optional string
TruthyString(str) == str # "undefined" /\ str # ""

\* lines 28-34: what the cached short code says; "" when it says nothing
CacheSays(cacheSt) ==
    LET status == ToUpperCase(cacheSt)
    IN  IF status = "TypeError" THEN "TypeError"
        ELSE IF status \in {"FT", "AET", "PEN"} THEN "FINISHED"
        ELSE IF status \in {"LIVE", "1H", "HT", "2H"} THEN "LIVE"
        ELSE ""

\* lines 37-47
TimeBasedStatus(timeSinceKickoff) ==
    IF Less(timeSinceKickoff, MATCH_DURATION_MS) THEN "LIVE"
    ELSE IF Less(timeSinceKickoff, GRACE_PERIOD_MS) THEN "FINISHED"
    ELSE "FINISHED"

\* the short code upper-cased without the test of line 27
calculateMatchStatusUnguarded(kickoff, cacheSt, t) ==
    LET timeSinceKickoff == Minus(t, kickoff)
    IN  IF Less(timeSinceKickoff, 0) THEN "SCHEDULED"
        ELSE IF CacheSays(cacheSt) # "" THEN CacheSays(cacheSt)
        ELSE TimeBasedStatus(timeSinceKickoff)

\* lines 16-48; the clock value t is what Date.now() returns at line 18
calculateMatchStatus(kickoff, cacheSt, t) ==
    LET timeSinceKickoff == Minus(t, kickoff)
    IN  IF Less(timeSinceKickoff, 0) THEN "SCHEDULED"
        ELSE IF TruthyString(cacheSt) /\ CacheSays(cacheSt) # "" THEN CacheSays(cacheSt)
        ELSE TimeBasedStatus(timeSinceKickoff)

\* app/football/bundesliga/page.tsx getMatchStatus
getMatchStatus(kickoff, t) ==
    LET timeDiff == t - kickoff
    IN  IF timeDiff > 0 /\ timeDiff < 120 * MINUTES_IN_MS THEN "LIVE"
        ELSE IF timeDiff < 0 THEN "SCHEDULED"
        ELSE "FINISHED"

\* app/api/matches/bundesliga/route.ts GET, the body of the loop over the
\* matches of the round: the displayStatus of the match and whether the
\* match goes into the answer
RouteDisplayStatus(matchTime, t) ==
    LET timeDiff == t - matchTime
    IN  IF matchTime > t THEN [status |-> "SCHEDULED", included |-> TRUE]
        ELSE IF timeDiff > 0 /\ timeDiff <= 120 * MINUTES_IN_MS
             THEN IF timeDiff <= 105 * MINUTES_IN_MS
                  THEN [status |-> "LIVE", included |-> TRUE]
                  ELSE [status |-> "FINISHED", included |-> TRUE]
             ELSE [status |-> "SCHEDULED", included |-> FALSE]

---------------------------------------------------------------------------
(* lib/match-normalizer: filterRelevantMatches, sortMatches; and the same  *)
(* two functions of lib/leagues/utils.  A match is a record with at least  *)
(* the fields kickoffTime (ms) and status.                                  *)

\* the predicate of matches.filter in filterRelevantMatches of the
\* normalizer: minutesElapsed < 120, whatever the status
KeepRelevantInclusive(match, t) ==
    ~ Less(GraceMinutes * MINUTES_IN_MS, Minus(t, match.kickoffTime))
    /\ match.kickoffTime # NaN

KeepRelevant(match, t) ==
    Less(Minus(t, match.kickoffTime), GraceMinutes * MINUTES_IN_MS)

filterRelevantMatches(ms, t) == SelectSeq(ms, LAMBDA match : KeepRelevant(match, t))

\* the predicate of matches.filter in filterRelevantMatches of lib/leagues/utils
UtilsKeepRelevant(match, t) ==
    LET timeSinceKickoff == Minus(t, match.kickoffTime)
    IN  IF match.status = "SCHEDULED" THEN TRUE
        ELSE IF match.status = "LIVE" THEN TRUE
        ELSE IF match.status = "FINISHED" /\ Less(timeSinceKickoff, GRACE_PERIOD_MS) THEN TRUE
        ELSE FALSE

utilsFilterRelevantMatches(ms, t) == SelectSeq(ms, LAMBDA match : UtilsKeepRelevant(match, t))

\* the comparator handed to Array.prototype.sort by both sortMatches
CompareKickoffFirst(a, b) ==
    IF a.kickoffTime # b.kickoffTime THEN a.kickoffTime - b.kickoffTime
    ELSE IF a.status = "LIVE" /\ b.status # "LIVE" THEN -1
    ELSE IF a.status # "LIVE" /\ b.status = "LIVE" THEN 1
    ELSE 0

Compare(a, b) ==
    IF a.status = "LIVE" /\ b.status # "LIVE" THEN -1
    ELSE IF a.status # "LIVE" /\ b.status = "LIVE" THEN 1
    ELSE a.kickoffTime - b.kickoffTime

\* Array.prototype.sort is stable (ECMAScript 2019): on a consistent
\* comparator every stable algorithm returns the same array; this is the
\* insertion sort, which moves an element left past the elements that
\* compare greater than it
InsertBeforeTies(sorted, match) ==
    LET before == {i \in 1..Len(sorted) : Compare(sorted[i], match) < 0}
        p == IF before = {} THEN 0 ELSE CHOOSE i \in before : \A j \in before : j <= i
    IN  SubSeq(sorted, 1, p) \o <<match>> \o SubSeq(sorted, p + 1, Len(sorted))

Insert(sorted, match) ==
    LET notAfter == {i \in 1..Len(sorted) : Compare(sorted[i], match) <= 0}
        p == IF notAfter = {} THEN 0 ELSE CHOOSE i \in notAfter : \A j \in notAfter : j <= i
    IN  SubSeq(sorted, 1, p) \o <<match>> \o SubSeq(sorted, p + 1, Len(sorted))

RECURSIVE SortInto(_, _)
SortInto(sorted, rest) ==
    IF rest = <<>> THEN sorted ELSE SortInto(Insert(sorted, Head(rest)), Tail(rest))

\* sortMatches of the normalizer sorts its argument in place and returns it;
\* sortMatches of lib/leagues/utils sorts a copy
sortMatches(ms) == SortInto(<<>>, ms)

utilsSortMatches(ms) == SortInto(<<>>, ms)

\* includeMatch of the Bundesliga route's loop over the round's matches: a
\* future match, or one that kicked off more than 0 and at most 120 minutes ago
RouteIncludes(match, t) ==
    LET timeDiff == Minus(t, match.kickoffTime)
    IN  IF Less(t, match.kickoffTime) THEN TRUE
        ELSE IF Less(0, timeDiff) /\ ~ Less(GraceMinutes * MINUTES_IN_MS, timeDiff)
                /\ timeDiff # NaN THEN TRUE
        ELSE FALSE

\* the tail of normalizeMatches, and of the unified handler
FilterThenSort(ms, t) == sortMatches(filterRelevantMatches(ms, t))

UtilsFilterThenSort(ms, t) == utilsSortMatches(utilsFilterRelevantMatches(ms, t))

---------------------------------------------------------------------------
(* JavaScript strings: a string is the sequence of its characters, the      *)
(* empty sequence standing for '' and, where the code reads it through      *)
(* "|| ''", for a missing property as well.                                  *)

UpperAlphabet == <<"A", "B", "C", "D", "E", "F", "G", "H", "I", "J", "K", "L", "M",
                   "N", "O", "P", "Q", "R", "S", "T", "U", "V", "W", "X", "Y", "Z">>
LowerAlphabet == <<"a", "b", "c", "d", "e", "f", "g", "h", "i", "j", "k", "l", "m",
                   "n", "o", "p", "q", "r", "s", "t", "u", "v", "w", "x", "y", "z">>

\* the characters the class \s matches, among those the model uses
Whitespace == {" ", "\t"}

LowerChar(c) ==
    IF \E i \in 1..Len(UpperAlphabet) : UpperAlphabet[i] = c
    THEN LowerAlphabet[CHOOSE i \in 1..Len(UpperAlphabet) : UpperAlphabet[i] = c]
    ELSE c

UpperChar(c) ==
    IF \E i \in 1..Len(LowerAlphabet) : LowerAlphabet[i] = c
    THEN UpperAlphabet[CHOOSE i \in 1..Len(LowerAlphabet) : LowerAlphabet[i] = c]
    ELSE c

\* String.prototype.toLowerCase / toUpperCase / substring(0, n)
CharsToLower(str) == [i \in 1..Len(str) |-> LowerChar(str[i])]
CharsToUpper(str) == [i \in 1..Len(str) |-> UpperChar(str[i])]
Substring0(str, n) == SubSeq(str, 1, Min(n, Len(str)))

\* str.replace(/\s+/g, '-'): every maximal run of whitespace becomes one hyphen
RECURSIVE SkipWhitespace(_)
SkipWhitespace(str) ==
    IF str # <<>> /\ Head(str) \in Whitespace THEN SkipWhitespace(Tail(str)) ELSE str

RECURSIVE ReplaceWhitespaceRuns(_)
ReplaceWhitespaceRuns(str) ==
    IF str = <<>> THEN <<>>
    ELSE IF Head(str) \in Whitespace THEN <<"-">> \o ReplaceWhitespaceRuns(SkipWhitespace(str))
    ELSE <<Head(str)>> \o ReplaceWhitespaceRuns(Tail(str))

\* str.split(' '): the pieces between single spaces, empty pieces included
RECURSIVE SplitAtSpaces(_, _)
SplitAtSpaces(str, word) ==
    IF str = <<>> THEN <<word>>
    ELSE IF Head(str) = " " THEN <<word>> \o SplitAtSpaces(Tail(str), <<>>)
    ELSE SplitAtSpaces(Tail(str), Append(word, Head(str)))

\* words.map(word => word[0]).join(''): word[0] of an empty word is
\* undefined, which join writes as nothing
RECURSIVE JoinInitials(_)
JoinInitials(words) ==
    IF words = <<>> THEN <<>>
    ELSE (IF Head(words) = <<>> THEN <<>> ELSE <<Head(words)[1]>>) \o JoinInitials(Tail(words))

---------------------------------------------------------------------------
(* lib/match-normalizer: generateShortName, generateTeamId, parseUTCTime *)

ShortNameLength == 3

generateShortName(name) ==
    CharsToUpper(Substring0(JoinInitials(SplitAtSpaces(name, <<>>)), ShortNameLength))

generateTeamIdKeepCase(name) == ReplaceWhitespaceRuns(name)

generateTeamId(name) == CharsToLower(ReplaceWhitespaceRuns(name))

\* An upstream timestamp: a missing property, a string that is no date
\* ('n/a'), or an ISO date-time 'YYYY-MM-DDTHH:mm:ss' followed by a zone
\* designator: none, 'Z' or a numeric offset.  wall is the clock reading the
\* string writes, in ms.
ZoneOffsetMs(zone) ==
    CASE zone = "Z" -> 0
      [] zone = "+02:00" -> 120 * MINUTES_IN_MS
      [] zone = "-05:00" -> 0 - 300 * MINUTES_IN_MS

WellFormedZones == {"", "Z", "+02:00", "-05:00"}

\* new Date(string).getTime(): a date-time without designator is local time,
\* one with a designator is that instant, anything else is an Invalid Date
DateParse(ts, localOffsetMs) ==
    IF ts.kind # "iso" \/ ts.zone \notin WellFormedZones THEN NaN
    ELSE IF ts.zone = "" THEN ts.wall - localOffsetMs
    ELSE ts.wall - ZoneOffsetMs(ts.zone)

\* timeString + 'Z'
AppendZ(ts) ==
    [ts EXCEPT !.zone = CASE ts.zone = "" -> "Z"
                          [] ts.zone = "Z" -> "ZZ"
                          [] ts.zone = "+02:00" -> "+02:00Z"
                          [] ts.zone = "-05:00" -> "-05:00Z"]

IncludesT(ts)    == ts.kind = "iso"
IncludesZ(ts)    == ts.kind = "iso" /\ ts.zone \in {"Z", "ZZ", "+02:00Z", "-05:00Z"}
IncludesPlus(ts) == ts.kind = "iso" /\ ts.zone \in {"+02:00", "+02:00Z"}

\* parseUTCTime: the instant (or NaN), or the TypeError of reading
\* .includes of undefined
parseUTCTime(ts, localOffsetMs) ==
    IF ts.kind = "undefined" THEN [error |-> "TypeError", time |-> NaN]
    ELSE IF IncludesT(ts) /\ ~ IncludesZ(ts) /\ ~ IncludesPlus(ts)
         THEN [error |-> "", time |-> DateParse(AppendZ(ts), localOffsetMs)]
    ELSE [error |-> "", time |-> DateParse(ts, localOffsetMs)]

\* new Date(match.status.utcTime) of the routes; new Date(undefined) is an
\* Invalid Date
RouteDateParse(ts, localOffsetMs) == DateParse(ts, localOffsetMs)

---------------------------------------------------------------------------
(* lib/match-normalizer: the normalizers and the dispatcher normalizeMatches.*)
(* An optional scalar of a record is a string, "undefined" when the record  *)
(* does not carry it; a score is "0", "2", ... and null is "null".  A       *)
(* kickoffTime of a normalized match is the instant its ISO string writes:  *)
(* toISOString and new Date(isoString) are exact to the millisecond.        *)

Undefined == "undefined"

\* a || b on optional scalars: undefined, '' and 0 are falsy
OrElse(a, b) == IF a \in {Undefined, "", "0", "null"} THEN b ELSE a

\* a || b on strings kept as character sequences
OrElseChars(a, b) == IF a = <<>> THEN b ELSE a

\* LEAGUE_CONFIGS, each descriptor known by its id
AUSTRIAN_BUNDESLIGA == "OEBL1"
AUSTRIAN_2LIGA      == "OEBL2"
GERMAN_BUNDESLIGA   == "DE1"
GERMAN_2BUNDESLIGA  == "DE2"
PREMIER_LEAGUE      == "EPL"

DefaultSeason == "2024/25"
DefaultPinnacleRound == "12. Spieltag"

\* the raw records of one fixture as each upstream writes it
RawA(f) == [id |-> f.id, homeTeam |-> f.home, awayTeam |-> f.away, utcTime |-> f.time,
            status |-> [finished |-> f.flags.finished, started |-> f.flags.started,
                        cancelled |-> f.flags.cancelled],
            round |-> f.round, season |-> f.season, bestOdds |-> f.bestOdds]

RawB(f) == [id |-> f.id, home |-> f.home, away |-> f.away,
            status |-> [utcTime |-> f.time, finished |-> f.flags.finished,
                        started |-> f.flags.started, cancelled |-> f.flags.cancelled,
                        ongoing |-> f.flags.ongoing, liveTime |-> f.liveTime],
            round |-> f.round, season |-> f.season, pageUrl |-> f.pageUrl]

RawC(f) == [event_id |-> f.id, home |-> f.home.name, away |-> f.away.name, starts |-> f.time,
            money_line |-> f.bestOdds]

NoTeam == [id |-> <<>>, name |-> <<>>, shortName |-> <<>>, logoUrl |-> "null", score |-> Undefined]

NoMatch == [id |-> <<>>, league |-> Undefined, homeTeam |-> NoTeam, awayTeam |-> NoTeam,
            kickoffTime |-> NaN, status |-> "none", round |-> Undefined, season |-> Undefined,
            bestOdds |-> Undefined, pageUrl |-> Undefined, liveTime |-> Undefined]

Raised(error) == [error |-> error, match |-> NoMatch]

\* the team block the Shape-A and Shape-B normalizers build
Team(team) ==
    [id |-> OrElseChars(team.id, generateTeamId(OrElseChars(team.name, <<>>))),
     name |-> OrElseChars(team.name, <<>>),
     shortName |-> generateShortName(OrElseChars(team.name, <<>>)),
     logoUrl |-> "null",
     score |-> OrElse(team.score, "null")]

\* the team block of the Pinnacle normalizer: the team is its name
PinnacleTeam(name) ==
    [id |-> generateTeamId(OrElseChars(name, <<>>)),
     name |-> OrElseChars(name, <<>>),
     shortName |-> generateShortName(OrElseChars(name, <<>>)),
     logoUrl |-> "null",
     score |-> Undefined]

\* Date.prototype.toISOString throws a RangeError on an Invalid Date
ToISOStringError(time) == IF time = NaN THEN "RangeError" ELSE ""

normalizeAustrianWeekendMatch(match, leagueConfig, localOffsetMs, t) ==
    LET kickoffUTC == parseUTCTime(match.utcTime, localOffsetMs)
        status == determineStatus(kickoffUTC.time, match.status.finished, match.status.started,
                                  match.status.cancelled, Undefined, t)
    IN  IF kickoffUTC.error # "" THEN Raised(kickoffUTC.error)
        ELSE IF ToISOStringError(kickoffUTC.time) # "" THEN Raised(ToISOStringError(kickoffUTC.time))
        ELSE [error |-> "",
              match |-> [id |-> match.id,
                         league |-> IF leagueConfig = Undefined THEN AUSTRIAN_BUNDESLIGA
                                    ELSE leagueConfig,
                         homeTeam |-> Team(match.homeTeam),
                         awayTeam |-> Team(match.awayTeam),
                         kickoffTime |-> kickoffUTC.time,
                         status |-> status,
                         round |-> match.round,
                         season |-> match.season,
                         bestOdds |-> match.bestOdds,
                         pageUrl |-> Undefined,
                         liveTime |-> Undefined]]

normalizeGermanBundesligaMatch(match, leagueConfig, round, localOffsetMs, t) ==
    LET kickoffUTC == parseUTCTime(match.status.utcTime, localOffsetMs)
        status == determineStatus(kickoffUTC.time, match.status.finished, match.status.started,
                                  match.status.cancelled, match.status.ongoing, t)
    IN  IF kickoffUTC.error # "" THEN Raised(kickoffUTC.error)
        ELSE IF ToISOStringError(kickoffUTC.time) # "" THEN Raised(ToISOStringError(kickoffUTC.time))
        ELSE [error |-> "",
              match |-> [id |-> match.id,
                         league |-> IF leagueConfig = Undefined THEN GERMAN_BUNDESLIGA
                                    ELSE leagueConfig,
                         homeTeam |-> Team(match.home),
                         awayTeam |-> Team(match.away),
                         kickoffTime |-> kickoffUTC.time,
                         status |-> status,
                         round |-> OrElse(round, match.round),
                         season |-> OrElse(match.season, DefaultSeason),
                         bestOdds |-> Undefined,
                         pageUrl |-> match.pageUrl,
                         liveTime |-> match.status.liveTime]]

\* moneyLine.home || (1.85 + Math.random() * 1.5): the upstream price, or a
\* random one, random standing for the draw of Math.random
normalizePinnacleMatch(match, leagueConfig, round, localOffsetMs, t, random) ==
    LET kickoffUTC == parseUTCTime(match.starts, localOffsetMs)
        minutesElapsed == Minus(t, kickoffUTC.time)
        status == IF AtLeast(minutesElapsed, 0) /\ Less(minutesElapsed, GraceMinutes * MINUTES_IN_MS)
                  THEN "LIVE"
                  ELSE IF AtLeast(minutesElapsed, GraceMinutes * MINUTES_IN_MS) THEN "FINISHED"
                  ELSE "SCHEDULED"
    IN  IF kickoffUTC.error # "" THEN Raised(kickoffUTC.error)
        ELSE IF ToISOStringError(kickoffUTC.time) # "" THEN Raised(ToISOStringError(kickoffUTC.time))
        ELSE [error |-> "",
              match |-> [id |-> generateTeamId(match.home) \o <<"-", "v", "s", "-">>
                                  \o generateTeamId(match.away) \o <<"-">> \o match.event_id,
                         league |-> IF leagueConfig = Undefined THEN AUSTRIAN_2LIGA
                                    ELSE leagueConfig,
                         homeTeam |-> PinnacleTeam(match.home),
                         awayTeam |-> PinnacleTeam(match.away),
                         kickoffTime |-> kickoffUTC.time,
                         status |-> status,
                         round |-> OrElse(round, DefaultPinnacleRound),
                         season |-> DefaultSeason,
                         bestOdds |-> OrElse(match.money_line, random),
                         pageUrl |-> Undefined,
                         liveTime |-> Undefined]]

\* normalizeFormattedMatch copies the eleven properties and raises nothing
normalizeFormattedMatch(match) ==
    [error |-> "",
     match |-> [id |-> match.id, league |-> match.league, homeTeam |-> match.homeTeam,
                awayTeam |-> match.awayTeam, kickoffTime |-> match.kickoffTime,
                status |-> match.status, round |-> match.round, season |-> match.season,
                bestOdds |-> match.bestOdds, pageUrl |-> match.pageUrl,
                liveTime |-> match.liveTime]]

\* a record that is already in the normalized format (main API route)
RawD(f, localOffsetMs) ==
    [id |-> f.id, league |-> f.league,
     homeTeam |-> [id |-> f.home.id, name |-> f.home.name, shortName |-> f.home.shortName,
                   logoUrl |-> "null", score |-> f.home.score],
     awayTeam |-> [id |-> f.away.id, name |-> f.away.name, shortName |-> f.away.shortName,
                   logoUrl |-> "null", score |-> f.away.score],
     kickoffTime |-> DateParse(f.time, localOffsetMs),
     status |-> f.status, round |-> f.round, season |-> f.season, bestOdds |-> f.bestOdds,
     pageUrl |-> f.pageUrl, liveTime |-> f.liveTime]

SupportedSources == {"austrian-weekend", "german-bundesliga", "german-2bundesliga",
                     "premier-league", "pinnacle", "formatted"}

\* the records of a batch as the upstream of that source writes them
RawBatch(fs, source, localOffsetMs) ==
    [i \in 1..Len(fs) |->
        CASE source = "austrian-weekend" -> RawA(fs[i])
          [] source \in {"german-bundesliga", "german-2bundesliga", "premier-league"} -> RawB(fs[i])
          [] source = "pinnacle" -> RawC(fs[i])
          [] OTHER -> RawD(fs[i], localOffsetMs)]

\* the switch of normalizeMatches, record by record
NormalizeOne(match, source, leagueConfig, round, localOffsetMs, t, random) ==
    CASE source = "austrian-weekend" ->
            normalizeAustrianWeekendMatch(match, leagueConfig, localOffsetMs, t)
      [] source = "german-bundesliga" ->
            normalizeGermanBundesligaMatch(match, OrElse(leagueConfig, GERMAN_BUNDESLIGA), round,
                                           localOffsetMs, t)
      [] source = "german-2bundesliga" ->
            normalizeGermanBundesligaMatch(match, OrElse(leagueConfig, GERMAN_2BUNDESLIGA), round,
                                           localOffsetMs, t)
      [] source = "premier-league" ->
            normalizeGermanBundesligaMatch(match, OrElse(leagueConfig, PREMIER_LEAGUE), round,
                                           localOffsetMs, t)
      [] source = "pinnacle" ->
            normalizePinnacleMatch(match, leagueConfig, round, localOffsetMs, t, random)
      [] source = "formatted" -> normalizeFormattedMatch(match)
      [] OTHER -> normalizeFormattedMatch(match)

\* normalizeMatches: an exception of one record leaves matches.map and the
\* function; otherwise the normalized records are filtered and sorted.
\* warned: console.warn was called.
normalizeMatches(ms, source, leagueConfig, round, localOffsetMs, t, random) ==
    LET results == [i \in 1..Len(ms) |->
                        NormalizeOne(ms[i], source, leagueConfig, round, localOffsetMs, t, random)]
        failed == {i \in 1..Len(ms) : results[i].error # ""}
        first == CHOOSE i \in failed : \A j \in failed : i <= j
    IN  IF failed # {}
        THEN [source |-> source, error |-> results[first].error,
              warned |-> source \notin SupportedSources, matches |-> <<>>]
        ELSE [source |-> source, error |-> "",
              warned |-> source \notin SupportedSources,
              matches |-> FilterThenSort([i \in 1..Len(ms) |-> results[i].match], t)]

---------------------------------------------------------------------------
(* Inputs *)

---------------------------------------------------------------------------
(* Flag-based league routes: Austrian Bundesliga, Championship, League One *)

DAY_MS == 24 * 60 * 60 * 1000

\* rounds of a season: Math.min(22, roundNumber) / Math.min(46, roundNumber)
AustrianLastRound == 22
EnglishLastRound  == 46

\* graceEndTime = latestKickoff + 240 * 60 * 1000
GraceEndMinutes == 240

\* the round a kickoff is grouped under.  Instants of these routes are
\* counted from the route's seasonStart.  (A week number outside
\* 1..lastRound is re-estimated from the calendar day for October kickoffs
\* before it is clamped; the kickoffs of the model lie in the first weeks of
\* the season, where the week number stands.)
RoundNumber(utcTime, lastRound) ==
    LET daysSinceStart  == utcTime \div DAY_MS
        weeksSinceStart == daysSinceStart \div 7
    IN  Max(1, Min(lastRound, weeksSinceStart + 1))

\* matchesByRound[round]
MatchesByRound(all, lastRound, round) ==
    SelectSeq(all, LAMBDA m : RoundNumber(m.utcTime, lastRound) = round)

\* Object.keys(matchesByRound).sort(by number)
RECURSIVE SortNumbers(_)
SortNumbers(S) ==
    IF S = {} THEN <<>>
    ELSE LET least == CHOOSE n \in S : \A m \in S : n <= m
         IN  <<least>> \o SortNumbers(S \ {least})

SortedRounds(all, lastRound) ==
    SortNumbers({RoundNumber(all[i].utcTime, lastRound) : i \in 1..Len(all)})

FlaggedLive(m)        == m.started /\ ~m.finished
StillUpcoming(m, t) == ~m.started /\ m.utcTime > t

\* Math.max(...roundMatches.map(kickoff)) of a non-empty round
RECURSIVE MaxUtcTime(_)
MaxUtcTime(roundMatches) ==
    IF Len(roundMatches) = 1 THEN roundMatches[1].utcTime
    ELSE Max(roundMatches[1].utcTime, MaxUtcTime(Tail(roundMatches)))

EveryFinished(roundMatches) == \A i \in 1..Len(roundMatches) : roundMatches[i].finished

\* the loop over sortedRounds of the Austrian Bundesliga and Championship
\* routes; round 0 stands for activeRound = null
RECURSIVE FlagFindRound(_, _, _, _, _)
FlagFindRound(all, lastRound, sortedRounds, i, t) ==
    IF i > Len(sortedRounds) THEN [round |-> 0, matches |-> <<>>]
    ELSE LET roundMatches    == MatchesByRound(all, lastRound, sortedRounds[i])
             liveMatches     == SelectSeq(roundMatches, FlaggedLive)
             upcomingMatches == SelectSeq(roundMatches, LAMBDA m : StillUpcoming(m, t))
         IN  IF Len(liveMatches) > 0 \/ Len(upcomingMatches) > 0
             THEN [round |-> sortedRounds[i], matches |-> liveMatches \o upcomingMatches]
             ELSE IF /\ EveryFinished(roundMatches)
                     /\ t <= MaxUtcTime(roundMatches) + GraceEndMinutes * MINUTES_IN_MS
                  THEN [round |-> sortedRounds[i], matches |-> <<>>]
                  ELSE FlagFindRound(all, lastRound, sortedRounds, i + 1, t)

\* the active round and the matches handed to normalizeMatches: the loop,
\* then the default to the earliest round, then '1. Spieltag' / 'Matchweek 1'
FlagActiveRound(all, lastRound, t) ==
    LET sortedRounds == SortedRounds(all, lastRound)
        found        == FlagFindRound(all, lastRound, sortedRounds, 1, t)
    IN  IF found.round = 0 /\ Len(sortedRounds) > 0
        THEN [round   |-> sortedRounds[1],
              matches |-> SelectSeq(MatchesByRound(all, lastRound, sortedRounds[1]),
                                    LAMBDA m : FlaggedLive(m) \/ StillUpcoming(m, t))]
        ELSE IF found.round = 0 THEN [round |-> 1, matches |-> <<>>]
        ELSE found

\* the loop of the League One route: cancelled matches are neither live nor
\* upcoming, and a finished round in its grace period is passed over when a
\* later round exists
RECURSIVE LeagueOneFindRound(_, _, _, _)
LeagueOneFindRound(all, sortedRounds, i, t) ==
    IF i > Len(sortedRounds) THEN [round |-> 0, matches |-> <<>>]
    ELSE LET roundMatches    == MatchesByRound(all, EnglishLastRound, sortedRounds[i])
             liveMatches     == SelectSeq(roundMatches, LAMBDA m : FlaggedLive(m) /\ ~m.cancelled)
             upcomingMatches == SelectSeq(roundMatches,
                                          LAMBDA m : ~m.cancelled /\ StillUpcoming(m, t))
         IN  IF Len(liveMatches) > 0 \/ Len(upcomingMatches) > 0
             THEN [round |-> sortedRounds[i], matches |-> liveMatches \o upcomingMatches]
             ELSE IF /\ EveryFinished(roundMatches)
                     /\ t <= MaxUtcTime(roundMatches) + GraceEndMinutes * MINUTES_IN_MS
                     /\ i = Len(sortedRounds)
                  THEN [round |-> sortedRounds[i], matches |-> <<>>]
                  ELSE LeagueOneFindRound(all, sortedRounds, i + 1, t)

LeagueOneActiveRound(all, t) ==
    LET sortedRounds == SortedRounds(all, EnglishLastRound)
        found        == LeagueOneFindRound(all, sortedRounds, 1, t)
    IN  IF found.round = 0 /\ Len(sortedRounds) > 0
        THEN [round   |-> sortedRounds[1],
              matches |-> SelectSeq(MatchesByRound(all, EnglishLastRound, sortedRounds[1]),
                                    LAMBDA m : ~m.cancelled /\ (FlaggedLive(m) \/ StillUpcoming(m, t)))]
        ELSE IF found.round = 0 THEN [round |-> 1, matches |-> <<>>]
        ELSE found

---------------------------------------------------------------------------
(* services/cache: SimpleCache, and getOpenLigaFixtures of the football    *)
(* API service.  The Map is a function over the keys; a key without entry  *)
(* maps to Absent.                                                         *)

DefaultTTL == 5 * 60 * 1000

\* this.cache.get(key) of a key without entry
Absent == [value |-> "null", expiry |-> -1, present |-> FALSE]

Size(c) == Cardinality({k \in DOMAIN c : c[k].present})

Expired(item, t) == t > item.expiry

\* cleanup()
cleanup(c, t) == [k \in DOMAIN c |-> IF c[k].present /\ Expired(c[k], t) THEN Absent ELSE c[k]]

\* set(key, value, ttl): the entry, then the periodic cleanup
set(c, key, value, ttl, t) ==
    LET stored == [c EXCEPT ![key] = [value |-> value, expiry |-> t + ttl, present |-> TRUE]]
    IN  IF Size(stored) % 10 = 0 THEN cleanup(stored, t) ELSE stored

\* the expiry test of get left out
getUnexpiring(c, key, t) ==
    IF ~c[key].present THEN [value |-> "null", cache |-> c]
    ELSE [value |-> c[key].value, cache |-> c]

\* get(key): the value returned and the Map after the call
get(c, key, t) ==
    IF ~c[key].present THEN [value |-> "null", cache |-> c]
    ELSE IF Expired(c[key], t) THEN [value |-> "null", cache |-> [c EXCEPT ![key] = Absent]]
    ELSE [value |-> c[key].value, cache |-> c]

SeqsUpTo(S, n) == UNION {[1..k -> S] : k \in 0..n}

\* a cache of the Bundesliga routes: entries 0..43 belong to rounds 1-5 and are
\* never read; the rest is a few runs of matches with equal kickoff
Rounds1To5 == [i \in 1..Round6Start |-> 0]

RECURSIVE Expand(_)
Expand(runs) ==
    IF runs = <<>> THEN <<>>
    ELSE [i \in 1..Head(runs).n |-> Head(runs).k] \o Expand(Tail(runs))

Runs == SeqsUpTo([k : Kickoffs, n : RunLens], MaxRuns)

FlagValues == {"true", "false", "undefined"}
NoFlags    == [finished |-> "undefined", started |-> "undefined",
               cancelled |-> "undefined", ongoing |-> "undefined"]
ShortCodes == {"undefined", "", "NS", "FT", "ft", "AET", "PEN", "LIVE", "1H", "HT", "2H"}
Statuses   == {"SCHEDULED", "LIVE", "FINISHED", "CANCELLED"}

NoResp == [handler |-> "none", fresh |-> FALSE, round |-> 0, roundMatches |-> <<>>]

NoStatus == [status |-> "none", fresh |-> FALSE]

NoRoundInput ==
    /\ matches = <<>>
    /\ matchesPerRound = 1
    /\ allMatches = <<>>
    /\ roundResp = NoResp

NoStatusInput ==
    /\ kickoffTime = NaN
    /\ flags = NoFlags
    /\ cacheStatus = "undefined"
    /\ dsStatus = NoStatus
    /\ cmStatus = NoStatus

NoOut == [op |-> "none", matches |-> <<>>]

NoFilterInput ==
    /\ xs = <<>>
    /\ fsOut = NoOut
    /\ fsTwice = NoOut

NoCall == [error |-> "none", match |-> NoMatch]

NoBatchCall == [source |-> "none", error |-> "", warned |-> FALSE, matches |-> <<>>]

NoParse == [by |-> "none", error |-> "", time |-> NaN]

NoAnswer == [by |-> "none", matches |-> <<>>]

NoNormOutput ==
    /\ outA = NoCall
    /\ outB = NoCall
    /\ outC = NoCall
    /\ outBatch = NoBatchCall
    /\ parsed = NoParse
    /\ response = NoAnswer

NoNormInput ==
    /\ fixtures = <<>>
    /\ leagueArg = Undefined
    /\ roundArg = Undefined
    /\ localOffset = 0
    /\ NoNormOutput

NoShown == [by |-> "none", status |-> "none", included |-> FALSE]

\* the keys getOpenLigaFixtures builds for two league codes
CacheKeys == {"openliga_bl1_current", "openliga_bl2_current"}

NoWrite == [value |-> "null", at |-> -1, ttl |-> 0, removed |-> TRUE]
NoGot   == [op |-> "none", key |-> "", value |-> "null", from |-> "", fresh |-> FALSE]

\* new SimpleCache()
EmptyCache ==
    /\ cache = [k \in CacheKeys |-> Absent]
    /\ got = NoGot
    /\ written = [k \in CacheKeys |-> NoWrite]

NoRequest == [pc |-> "idle", routeNow |-> 0, selected |-> <<>>, normalized |-> <<>>,
              answer |-> <<>>]

NoFinalInput ==
    /\ weekendMatches = <<>>
    /\ shown = NoShown
    /\ EmptyCache
    /\ request = NoRequest

NoLaterInput == NoFilterInput /\ NoNormInput /\ NoFinalInput

InitRound ==
    /\ now = 0
    /\ roundResp = NoResp
    /\ \/ /\ matches \in SeqsUpTo(Kickoffs, MaxLen)
          /\ matchesPerRound \in 1..MaxPerRound
          /\ allMatches = <<>>
       \/ /\ matches = <<>>
          /\ matchesPerRound = 1
          /\ \E runs \in Runs : allMatches = Rounds1To5 \o Expand(runs)
    /\ NoStatusInput
    /\ NoLaterInput

InitStatus ==
    /\ now = 0
    /\ NoRoundInput
    /\ kickoffTime \in Kickoffs \cup {NaN}
    /\ \/ /\ flags \in [finished : FlagValues, started : FlagValues,
                        cancelled : FlagValues, ongoing : FlagValues]
          /\ cacheStatus = "undefined"
       \/ /\ flags = NoFlags
          /\ cacheStatus \in ShortCodes
    /\ dsStatus = NoStatus
    /\ cmStatus = NoStatus
    /\ NoLaterInput

\* an array of normalized matches, each known by its position in the array
\* handed over, and the instant the clock shows during the call
FilterInputs ==
    UNION {{[i \in 1..n |-> [id |-> i, status |-> st[i], kickoffTime |-> ko[i] * MINUTES_IN_MS]] :
                st \in [1..n -> Statuses], ko \in [1..n -> FilterKickoffMinutes]} : n \in 0..MaxBatch}

InitFilter ==
    /\ now \in {m * MINUTES_IN_MS : m \in FilterNowMinutes}
    /\ NoRoundInput
    /\ NoStatusInput
    /\ xs \in FilterInputs
    /\ fsOut = NoOut
    /\ fsTwice = NoOut
    /\ NoNormInput
    /\ NoFinalInput

\* team names: 'RB Salzburg', 'lask', 'SK  Rapid' + tab + 'Wien', 'a b c d', ''
TeamNames ==
    { <<"R", "B", " ", "S", "a", "l", "z", "b", "u", "r", "g">>,
      <<"l", "a", "s", "k">>,
      <<"S", "K", " ", " ", "R", "a", "p", "i", "d", "\t", "W", "i", "e", "n">>,
      <<"a", " ", "b", " ", "c", " ", "d">>,
      <<>> }

\* upstream team ids and short names: none, or 'T7' / 'SAL'
TeamIds    == { <<>>, <<"T", "7">> }
ShortNames == { <<>>, <<"S", "A", "L">> }
Scores     == {Undefined, "0", "2"}

Teams == [id : TeamIds, name : TeamNames, shortName : ShortNames, score : Scores]

AwayTeam == [id |-> <<>>, name |-> <<"W", "A", "C">>, shortName |-> <<>>, score |-> Undefined]

TimeStamp(minute, zone) == [kind |-> "iso", wall |-> minute * MINUTES_IN_MS, zone |-> zone]
NoTimeStamp      == [kind |-> "undefined", wall |-> 0, zone |-> ""]
GarbageTimeStamp == [kind |-> "garbage", wall |-> 0, zone |-> ""]

TimeStamps(minutes) ==
    {TimeStamp(m, z) : m \in minutes, z \in WellFormedZones} \cup {NoTimeStamp, GarbageTimeStamp}

BoolFlags == [finished : {"true", "false"}, started : {"true", "false"},
              cancelled : {"true", "false"}, ongoing : {"true", "false"}]

DefaultFixture ==
    [id |-> <<"m", "1">>, league |-> AUSTRIAN_BUNDESLIGA,
     home |-> [id |-> <<>>, name |-> <<"l", "a", "s", "k">>, shortName |-> <<>>, score |-> Undefined],
     away |-> AwayTeam, time |-> TimeStamp(40, "Z"), flags |-> NoFlags, status |-> "SCHEDULED",
     round |-> Undefined, season |-> Undefined, pageUrl |-> Undefined, liveTime |-> Undefined,
     bestOdds |-> Undefined]

NormNowMinutes   == {39, 40, 41, 159, 160, 161}
BatchNowMinutes  == {41, 130, 131}
LocalOffsetHours == {0, 1, 2}

\* the fixture 'RB Salzburg' - 'Rapid Wien' kicking off at 2025-08-22T18:30:00Z,
\* 3990 minutes after 2025-08-20T00:00:00Z, which is minute 0 here
Scenario1KickoffMinute == 3990

Scenario1Fixture ==
    [DefaultFixture EXCEPT
        !.home = [id |-> <<>>, name |-> <<"R", "B", " ", "S", "a", "l", "z", "b", "u", "r", "g">>,
                  shortName |-> <<>>, score |-> Undefined],
        !.away = [id |-> <<>>, name |-> <<"R", "a", "p", "i", "d", " ", "W", "i", "e", "n">>,
                  shortName |-> <<>>, score |-> Undefined],
        !.time = TimeStamp(Scenario1KickoffMinute, "Z"),
        !.flags = [finished |-> "false", started |-> "false",
                   cancelled |-> Undefined, ongoing |-> Undefined]]

\* one fixture whose home team varies
TeamFixtures == {[DefaultFixture EXCEPT !.home = team] : team \in Teams}

\* one fixture whose timestamp and flags vary
TimedFixtures ==
    {[DefaultFixture EXCEPT !.time = ts, !.flags = fl] : ts \in TimeStamps({40}), fl \in BoolFlags}

\* one fixture whose optional labels vary
LabelledFixtures ==
    {[DefaultFixture EXCEPT !.round = r, !.season = s, !.pageUrl = p, !.liveTime = l, !.bestOdds = o] :
        r \in {Undefined, "9. Runde"}, s \in {Undefined, "2025/26"}, p \in {Undefined, "/match/1"},
        l \in {Undefined, "45'"}, o \in {Undefined, "odds"}}

\* a payload of fixtures that differ in their timestamp and are known by
\* their position
BatchTimeStamps == {TimeStamp(10, "Z"), TimeStamp(11, ""), NoTimeStamp, GarbageTimeStamp}

Batches ==
    UNION {{[i \in 1..n |-> [DefaultFixture EXCEPT !.id = <<"m", i>>, !.time = ts[i]]] :
                ts \in [1..n -> BatchTimeStamps]} : n \in 0..MaxBatch}

InitNormalize ==
    /\ NoRoundInput
    /\ NoStatusInput
    /\ NoFilterInput
    /\ NoNormOutput
    /\ NoFinalInput
    /\ localOffset = 0
    /\ \/ /\ \E f \in TeamFixtures : fixtures = <<f>>
          /\ now \in {39 * MINUTES_IN_MS, 41 * MINUTES_IN_MS}
          /\ leagueArg = Undefined
          /\ roundArg = Undefined
       \/ /\ fixtures = <<Scenario1Fixture>>
          /\ now = 0
          /\ leagueArg = Undefined
          /\ roundArg = Undefined
       \/ /\ \E f \in TimedFixtures : fixtures = <<f>>
          /\ now \in {m * MINUTES_IN_MS : m \in NormNowMinutes}
          /\ leagueArg = Undefined
          /\ roundArg = Undefined
       \/ /\ \E f \in LabelledFixtures : fixtures = <<f>>
          /\ now = 41 * MINUTES_IN_MS
          /\ leagueArg \in {Undefined, PREMIER_LEAGUE}
          /\ roundArg \in {Undefined, "7. Spieltag"}

\* a payload handed to normalizeMatches
InitDispatch ==
    /\ NoRoundInput
    /\ NoStatusInput
    /\ NoFilterInput
    /\ NoNormOutput
    /\ NoFinalInput
    /\ localOffset = 0
    /\ \/ fixtures \in Batches
       \/ fixtures = <<[DefaultFixture EXCEPT !.league = Undefined]>>
    /\ now \in {m * MINUTES_IN_MS : m \in BatchNowMinutes}
    /\ leagueArg = Undefined
    /\ roundArg = Undefined

\* one raw kickoff timestamp and the time zone of the server
InitParse ==
    /\ now = 0
    /\ NoRoundInput
    /\ NoStatusInput
    /\ NoFilterInput
    /\ NoNormOutput
    /\ NoFinalInput
    /\ \E ts \in TimeStamps(KickoffMinutes) : fixtures = <<[DefaultFixture EXCEPT !.time = ts]>>
    /\ localOffset \in {h * 60 * MINUTES_IN_MS : h \in LocalOffsetHours}
    /\ leagueArg = Undefined
    /\ roundArg = Undefined

\* kickoffs of the flag-based routes: two in the first week of the season,
\* one in the second; the instants around them, around kickoff + 120 minutes
\* and around kickoff + 240 minutes
SeasonKickoffMinutes == {10, 40, 10090}
SeasonNowMinutes     == {10, 11, 130, 131, 250, 251, 280, 281, 10089, 10090, 10210, 10211, 10330, 10331}
SeasonInstants       == {m * MINUTES_IN_MS : m \in SeasonNowMinutes}

\* flags of a cached match: not started, under way, finished, cancelled
CachedFlags ==
    {[started |-> FALSE, finished |-> FALSE, cancelled |-> FALSE],
     [started |-> TRUE,  finished |-> FALSE, cancelled |-> FALSE],
     [started |-> TRUE,  finished |-> TRUE,  cancelled |-> FALSE],
     [started |-> FALSE, finished |-> FALSE, cancelled |-> TRUE]}

\* cacheData.weekendMatches, each match known by its position
WeekendCaches ==
    UNION {{[i \in 1..n |-> [id |-> i, utcTime |-> ko[i] * MINUTES_IN_MS,
                            started |-> fl[i].started, finished |-> fl[i].finished,
                            cancelled |-> fl[i].cancelled]] :
                ko \in [1..n -> SeasonKickoffMinutes], fl \in [1..n -> CachedFlags]} :
           n \in 0..MaxCached}

InitFlagRound ==
    /\ now = 0
    /\ NoRoundInput
    /\ NoStatusInput
    /\ NoFilterInput
    /\ NoNormInput
    /\ weekendMatches \in WeekendCaches
    /\ shown = NoShown
    /\ EmptyCache
    /\ request = NoRequest

\* one match, its flags or its cached short code, for the status functions
\* called again and again as the clock advances
OrderFlags ==
    {NoFlags, [NoFlags EXCEPT !.started = "true"], [NoFlags EXCEPT !.finished = "true"],
     [NoFlags EXCEPT !.started = "false", !.finished = "false"]}
OrderShortCodes == {"NS", "FT", "1H"}

InitStatusOrder ==
    /\ now = 0
    /\ NoRoundInput
    /\ kickoffTime \in Kickoffs
    /\ \/ /\ flags \in OrderFlags
          /\ cacheStatus = "undefined"
       \/ /\ flags = NoFlags
          /\ cacheStatus \in OrderShortCodes
    /\ dsStatus = NoStatus
    /\ cmStatus = NoStatus
    /\ NoFilterInput
    /\ NoNormInput
    /\ weekendMatches = <<>>
    /\ shown = NoShown
    /\ EmptyCache
    /\ request = NoRequest

\* values stored, the ttl arguments (0, and the default five minutes of a
\* call without ttl), and the instants the clock advances to
CacheValues   == {"fixturesA", "fixturesB"}
CacheTTLs     == {0, DefaultTTL}
CacheInstants == {m * MINUTES_IN_MS : m \in {1, 5, 6}}

\* the matches of the current round in the cache of the Bundesliga route,
\* no flag set, kicking off at minute 10 or 40
RoundFixtures ==
    UNION {{[i \in 1..n |-> [DefaultFixture EXCEPT !.id = <<"m", i>>,
                                                   !.time = TimeStamp(ko[i], "Z")]] :
                ko \in [1..n -> {10, 40}]} : n \in 1..MaxSelected}

InitRequest ==
    /\ now = 0
    /\ NoRoundInput
    /\ NoStatusInput
    /\ NoFilterInput
    /\ NoNormOutput
    /\ fixtures \in RoundFixtures
    /\ leagueArg = GERMAN_BUNDESLIGA
    /\ roundArg = "6. Spieltag"
    /\ localOffset = 0
    /\ weekendMatches = <<>>
    /\ shown = NoShown
    /\ EmptyCache
    /\ request = NoRequest

\* a new cache
InitCache ==
    /\ now = 0
    /\ NoRoundInput
    /\ NoStatusInput
    /\ NoFilterInput
    /\ NoNormInput
    /\ NoFinalInput

Init == InitRound \/ InitStatus \/ InitFilter \/ InitNormalize \/ InitDispatch \/ InitParse
           \/ InitFlagRound \/ InitStatusOrder \/ InitCache \/ InitRequest

---------------------------------------------------------------------------
(* Actions *)

\* the wall clock advances
Tick ==
    /\ \E t \in Instants : t > now /\ now' = t
    /\ roundResp' = [roundResp EXCEPT !.fresh = FALSE]
    /\ dsStatus' = [dsStatus EXCEPT !.fresh = FALSE]
    /\ cmStatus' = [cmStatus EXCEPT !.fresh = FALSE]
    /\ UNCHANGED <<matches, matchesPerRound, allMatches, kickoffTime, flags, cacheStatus, laterVars>>

\* the unified handler: the empty-cache answer, or the current round and its
\* slice of the cache (the status conversion, relevance filter and sort that
\* build the response list from roundMatches read roundMatches only)
UnifiedHandler ==
    /\ IF Len(matches) = 0
       THEN roundResp' = [handler |-> "unified", fresh |-> TRUE, round |-> 0, roundMatches |-> <<>>]
       ELSE LET currentRound == calculateCurrentRound(matches, matchesPerRound, now)
            IN  roundResp' = [handler |-> "unified", fresh |-> TRUE, round |-> currentRound,
                              roundMatches |-> filterCurrentRoundMatches(matches, currentRound,
                                                                         matchesPerRound)]
    /\ UNCHANGED <<now, matches, matchesPerRound, allMatches, statusVars, laterVars>>

\* app/api/matches/bundesliga/route.ts GET: the current round and its slice
BundesligaGET ==
    /\ LET currentRound == RouteFindRound(allMatches, StartRound, now)
       IN  roundResp' = [handler |-> "bundesliga", fresh |-> TRUE, round |-> currentRound,
                         roundMatches |-> getMatchesForRound(allMatches, currentRound)]
    /\ UNCHANGED <<now, matches, matchesPerRound, allMatches, statusVars, laterVars>>

\* app/api/matches/route.ts GET, German Bundesliga branch with a non-empty cache
MainGET ==
    /\ Len(allMatches) # 0
    /\ LET found == MainFindRound(allMatches, StartRound, Round6Start, now)
       IN  roundResp' = [handler |-> "main", fresh |-> TRUE, round |-> found[1],
                         roundMatches |-> MainRoundSlice(allMatches, found[2])]
    /\ UNCHANGED <<now, matches, matchesPerRound, allMatches, statusVars, laterVars>>

\* a normalizer classifies the match (normalizeGermanBundesligaMatch; the
\* Austrian weekend normalizer passes no ongoing flag)
DetermineStatusCall ==
    /\ dsStatus' = [status |-> determineStatus(kickoffTime, flags.finished, flags.started,
                                                flags.cancelled, flags.ongoing, now),
                    fresh |-> TRUE]
    /\ UNCHANGED <<now, roundVars, kickoffTime, flags, cacheStatus, cmStatus, laterVars>>

\* convertCachedMatch classifies the match
CalcMatchStatusCall ==
    /\ cmStatus' = [status |-> calculateMatchStatus(kickoffTime, cacheStatus, now), fresh |-> TRUE]
    /\ UNCHANGED <<now, roundVars, kickoffTime, flags, cacheStatus, dsStatus, laterVars>>

\* filterRelevantMatches of the normalizer is called on the array
FilterCall ==
    /\ fsOut' = [op |-> "filter", matches |-> filterRelevantMatches(xs, now)]
    /\ fsTwice' = NoOut
    /\ UNCHANGED <<now, roundVars, statusVars, xs, normVars, finalVars>>

\* sortMatches of the normalizer is called on the array, which it sorts in place
SortCall ==
    /\ xs' = sortMatches(xs)
    /\ fsOut' = [op |-> "sort", matches |-> xs']
    /\ fsTwice' = NoOut
    /\ UNCHANGED <<now, roundVars, statusVars, normVars, finalVars>>

\* the tail of normalizeMatches: filter, then sort the filtered array
FilterThenSortCall ==
    /\ fsOut' = [op |-> "filterThenSort", matches |-> FilterThenSort(xs, now)]
    /\ fsTwice' = NoOut
    /\ UNCHANGED <<now, roundVars, statusVars, xs, normVars, finalVars>>

\* filterRelevantMatches of lib/leagues/utils
UtilsFilterCall ==
    /\ fsOut' = [op |-> "utilsFilter", matches |-> utilsFilterRelevantMatches(xs, now)]
    /\ fsTwice' = NoOut
    /\ UNCHANGED <<now, roundVars, statusVars, xs, normVars, finalVars>>

\* sortMatches of lib/leagues/utils
UtilsSortCall ==
    /\ fsOut' = [op |-> "utilsSort", matches |-> utilsSortMatches(xs)]
    /\ fsTwice' = NoOut
    /\ UNCHANGED <<now, roundVars, statusVars, xs, normVars, finalVars>>

\* the Bundesliga route on the matches of the current round, each with the
\* status its flags give it: the route's own selection, then the tail of
\* normalizeMatches
BundesligaSelectCall ==
    /\ xs # <<>>
    /\ fsOut' = [op |-> "bundesligaRoute",
                 matches |-> FilterThenSort(SelectSeq(xs, LAMBDA match : RouteIncludes(match, now)), now)]
    /\ fsTwice' = NoOut
    /\ UNCHANGED <<now, roundVars, statusVars, xs, normVars, finalVars>>

\* the tail of the unified handler: filter, then sort
UtilsFilterThenSortCall ==
    /\ fsOut' = [op |-> "utilsFilterThenSort", matches |-> UtilsFilterThenSort(xs, now)]
    /\ fsTwice' = NoOut
    /\ UNCHANGED <<now, roundVars, statusVars, xs, normVars, finalVars>>

\* the caller hands the array it got back to the same function, the clock
\* still showing the same instant
Again ==
    /\ fsOut.op # "none"
    /\ fsTwice = NoOut
    /\ fsTwice' = [op |-> fsOut.op,
                   matches |-> CASE fsOut.op = "filter" -> filterRelevantMatches(fsOut.matches, now)
                                 [] fsOut.op = "sort" -> sortMatches(fsOut.matches)
                                 [] fsOut.op = "filterThenSort" -> FilterThenSort(fsOut.matches, now)
                                 [] fsOut.op = "utilsFilter" -> utilsFilterRelevantMatches(fsOut.matches, now)
                                 [] fsOut.op = "utilsSort" -> utilsSortMatches(fsOut.matches)
                                 [] fsOut.op = "utilsFilterThenSort" -> UtilsFilterThenSort(fsOut.matches, now)
                                 [] fsOut.op = "bundesligaRoute" ->
                                        FilterThenSort(SelectSeq(fsOut.matches,
                                                                 LAMBDA match : RouteIncludes(match, now)),
                                                       now)]
    /\ UNCHANGED <<now, roundVars, statusVars, xs, fsOut, normVars, finalVars>>

\* the draws of Math.random the Pinnacle normalizer may make
Randoms == {"random1", "random2"}

Sources == SupportedSources \cup {"unknown"}

\* normalizeAustrianWeekendMatch on the first fixture written in Shape A
NormalizeAustrianCall ==
    /\ fixtures # <<>>
    /\ outA' = normalizeAustrianWeekendMatch(RawA(fixtures[1]), leagueArg, localOffset, now)
    /\ UNCHANGED <<now, roundVars, statusVars, filterVars, normInputs, outB, outC, outBatch, parsed, response, finalVars>>

\* normalizeGermanBundesligaMatch on the first fixture written in Shape B
NormalizeGermanCall ==
    /\ fixtures # <<>>
    /\ outB' = normalizeGermanBundesligaMatch(RawB(fixtures[1]), leagueArg, roundArg, localOffset, now)
    /\ UNCHANGED <<now, roundVars, statusVars, filterVars, normInputs, outA, outC, outBatch, parsed, response, finalVars>>

\* normalizePinnacleMatch on the first fixture written in Shape C
NormalizePinnacleCall ==
    /\ fixtures # <<>>
    /\ \E random \in Randoms :
          outC' = normalizePinnacleMatch(RawC(fixtures[1]), leagueArg, roundArg, localOffset, now, random)
    /\ UNCHANGED <<now, roundVars, statusVars, filterVars, normInputs, outA, outB, outBatch, parsed, response, finalVars>>

\* normalizeMatches on the payload written in the shape of the source tag
\* (an already formatted payload under 'formatted' and under a tag the
\* switch does not know); a request calls it before it attaches odds
NormalizeMatchesCall ==
    /\ \E source \in Sources, random \in Randoms :
          /\ source # "pinnacle" => random = "random1"
          /\ response = NoAnswer
          /\ outBatch' = normalizeMatches(RawBatch(fixtures, source, localOffset), source,
                                          leagueArg, roundArg, localOffset, now, random)
    /\ UNCHANGED <<now, roundVars, statusVars, filterVars, normInputs, outA, outB, outC, parsed, response, finalVars>>

\* match.bestOdds = {...} when the match has none: the assignment the
\* routes make to the objects normalizeMatches returned
WithMockOdds(match, random) ==
    IF match.bestOdds = Undefined THEN [match EXCEPT !.bestOdds = random] ELSE match

\* the Bundesliga route (normalizedMatches.forEach) and the Austrian branch
\* of the main route (normalizedMatches.map returning the same objects) add
\* mock odds to the matches normalizeMatches returned and answer with them
AttachOddsCall ==
    /\ outBatch.source \in {"austrian-weekend", "german-bundesliga"}
    /\ outBatch.error = ""
    /\ response = NoAnswer
    /\ \E random \in Randoms :
          /\ outBatch' = [outBatch EXCEPT
                             !.matches = [i \in 1..Len(outBatch.matches) |->
                                              WithMockOdds(outBatch.matches[i], random)]]
          /\ response' = [by |-> outBatch.source, matches |-> outBatch'.matches]
    /\ UNCHANGED <<now, roundVars, statusVars, filterVars, normInputs, outA, outB, outC, parsed, finalVars>>

\* parseUTCTime on the first fixture's timestamp
ParseUTCTimeCall ==
    /\ fixtures # <<>>
    /\ LET r == parseUTCTime(fixtures[1].time, localOffset)
       IN  parsed' = [by |-> "parseUTCTime", error |-> r.error, time |-> r.time]
    /\ UNCHANGED <<now, roundVars, statusVars, filterVars, normInputs, outA, outB, outC, outBatch, response, finalVars>>

\* the main route turns the timestamp into lastGameTime's candidate
MainRouteParseCall ==
    /\ fixtures # <<>>
    /\ LET r == parseUTCTime(fixtures[1].time, localOffset)
       IN  parsed' = [by |-> "mainRoute", error |-> r.error, time |-> r.time]
    /\ UNCHANGED <<now, roundVars, statusVars, filterVars, normInputs, outA, outB, outC, outBatch, response, finalVars>>

\* the Bundesliga route (and every other league route) turns the timestamp
\* into matchTime for its round selection
RouteParseCall ==
    /\ fixtures # <<>>
    /\ parsed' = [by |-> "route", error |-> "", time |-> RouteDateParse(fixtures[1].time, localOffset)]
    /\ UNCHANGED <<now, roundVars, statusVars, filterVars, normInputs, outA, outB, outC, outBatch, response, finalVars>>

\* the wall clock advances over the weeks of a season
SeasonTick ==
    /\ \E t \in SeasonInstants : t > now /\ now' = t
    /\ roundResp' = [roundResp EXCEPT !.fresh = FALSE]
    /\ UNCHANGED <<matches, matchesPerRound, allMatches, statusVars, laterVars>>

\* app/api/matches/austrian-bundesliga/route.ts GET: the active round and
\* the matches of it that go on to normalizeMatches (normalization and the
\* mock odds read these matches and the round label only)
AustrianGET ==
    /\ LET active == FlagActiveRound(weekendMatches, AustrianLastRound, now)
       IN  roundResp' = [handler |-> "austrian", fresh |-> TRUE, round |-> active.round,
                         roundMatches |-> active.matches]
    /\ UNCHANGED <<now, matches, matchesPerRound, allMatches, statusVars, laterVars>>

\* app/api/matches/championship/route.ts GET
ChampionshipGET ==
    /\ LET active == FlagActiveRound(weekendMatches, EnglishLastRound, now)
       IN  roundResp' = [handler |-> "championship", fresh |-> TRUE, round |-> active.round,
                         roundMatches |-> active.matches]
    /\ UNCHANGED <<now, matches, matchesPerRound, allMatches, statusVars, laterVars>>

\* app/api/matches/league1/route.ts GET
LeagueOneGET ==
    /\ LET active == LeagueOneActiveRound(weekendMatches, now)
       IN  roundResp' = [handler |-> "league1", fresh |-> TRUE, round |-> active.round,
                         roundMatches |-> active.matches]
    /\ UNCHANGED <<now, matches, matchesPerRound, allMatches, statusVars, laterVars>>

\* the Bundesliga page classifies the match it shows
GetMatchStatusCall ==
    /\ shown' = [by |-> "page", status |-> getMatchStatus(kickoffTime, now), included |-> TRUE]
    /\ UNCHANGED <<now, roundVars, statusVars, filterVars, normVars, weekendMatches, cacheVars, request>>

\* the Bundesliga route classifies a match of the current round
DisplayStatusCall ==
    /\ LET display == RouteDisplayStatus(kickoffTime, now)
       IN  shown' = [by |-> "route", status |-> display.status, included |-> display.included]
    /\ UNCHANGED <<now, roundVars, statusVars, filterVars, normVars, weekendMatches, cacheVars, request>>

\* the wall clock advances between two calls on the cache
CacheTick ==
    /\ \E t \in CacheInstants : t > now /\ now' = t
    /\ got' = [got EXCEPT !.fresh = FALSE]
    /\ UNCHANGED <<roundVars, statusVars, filterVars, normVars, weekendMatches, shown, cache, written, request>>

SetCall ==
    /\ \E key \in CacheKeys, value \in CacheValues, ttl \in CacheTTLs :
          /\ cache' = set(cache, key, value, ttl, now)
          /\ written' = [written EXCEPT ![key] = [value |-> value, at |-> now, ttl |-> ttl,
                                                  removed |-> FALSE]]
    /\ got' = [got EXCEPT !.fresh = FALSE]
    /\ UNCHANGED <<now, roundVars, statusVars, filterVars, normVars, weekendMatches, shown, request>>

GetCall ==
    /\ \E key \in CacheKeys :
          LET answer == get(cache, key, now)
          IN  /\ cache' = answer.cache
              /\ got' = [op |-> "get", key |-> key, value |-> answer.value, from |-> "",
                         fresh |-> TRUE]
    /\ UNCHANGED <<now, roundVars, statusVars, filterVars, normVars, weekendMatches, shown, written, request>>

\* has(key): get(key) !== null
HasCall ==
    /\ \E key \in CacheKeys :
          LET answer == get(cache, key, now)
          IN  /\ cache' = answer.cache
              /\ got' = [op |-> "has", key |-> key,
                         value |-> IF answer.value # "null" THEN "true" ELSE "false",
                         from |-> "", fresh |-> TRUE]
    /\ UNCHANGED <<now, roundVars, statusVars, filterVars, normVars, weekendMatches, shown, written, request>>

DeleteCall ==
    /\ \E key \in CacheKeys :
          /\ cache' = [cache EXCEPT ![key] = Absent]
          /\ written' = [written EXCEPT ![key].removed = TRUE]
    /\ got' = [got EXCEPT !.fresh = FALSE]
    /\ UNCHANGED <<now, roundVars, statusVars, filterVars, normVars, weekendMatches, shown, request>>

ClearCall ==
    /\ cache' = [k \in CacheKeys |-> Absent]
    /\ written' = [k \in CacheKeys |-> [written[k] EXCEPT !.removed = TRUE]]
    /\ got' = [got EXCEPT !.fresh = FALSE]
    /\ UNCHANGED <<now, roundVars, statusVars, filterVars, normVars, weekendMatches, shown, request>>

CleanupCall ==
    /\ cache' = cleanup(cache, now)
    /\ got' = [got EXCEPT !.fresh = FALSE]
    /\ UNCHANGED <<now, roundVars, statusVars, filterVars, normVars, weekendMatches, shown, written, request>>

\* size(): cleanup, then the number of entries
SizeCall ==
    /\ cache' = cleanup(cache, now)
    /\ got' = [op |-> "size", key |-> "", value |-> Size(cache'), from |-> "", fresh |-> TRUE]
    /\ UNCHANGED <<now, roundVars, statusVars, filterVars, normVars, weekendMatches, shown, written, request>>

\* getOpenLigaFixtures(leagueCode): the cached fixtures when there are any,
\* else the fixtures fetched from upstream, stored for five minutes; a
\* failed fetch answers [] and stores nothing
GetOpenLigaFixturesCall ==
    /\ \E key \in CacheKeys :
          LET cached == get(cache, key, now)
          IN  \/ /\ cached.value # "null"
                 /\ cache' = cached.cache
                 /\ got' = [op |-> "fetch", key |-> key, value |-> cached.value,
                            from |-> "cache", fresh |-> TRUE]
                 /\ UNCHANGED written
              \/ /\ cached.value = "null"
                 /\ \E fetched \in CacheValues :
                       /\ cache' = set(cached.cache, key, fetched, 5 * 60 * 1000, now)
                       /\ written' = [written EXCEPT ![key] = [value |-> fetched, at |-> now,
                                                               ttl |-> 5 * 60 * 1000,
                                                               removed |-> FALSE]]
                       /\ got' = [op |-> "fetch", key |-> key, value |-> fetched,
                                  from |-> "upstream", fresh |-> TRUE]
              \/ /\ cached.value = "null"
                 /\ cache' = cached.cache
                 /\ got' = [op |-> "fetch", key |-> key, value |-> "[]",
                            from |-> "error", fresh |-> TRUE]
                 /\ UNCHANGED written
    /\ UNCHANGED <<now, roundVars, statusVars, filterVars, normVars, weekendMatches, shown, request>>

\* what the Bundesliga route hands to normalizeMatches when it reads the
\* clock at t: the matches of the round its loop includes
RouteSelected(fs, localOffsetMs, t) ==
    SelectSeq(fs, LAMBDA f : RouteDisplayStatus(RouteDateParse(f.time, localOffsetMs), t).included)

\* bundesliga/route.ts GET: const now = new Date(), and the selection of
\* the round's matches against it
RequestStart ==
    /\ request.pc = "idle"
    /\ request' = [pc |-> "normalize", routeNow |-> now,
                   selected |-> RouteSelected(fixtures, localOffset, now),
                   normalized |-> <<>>, answer |-> <<>>]
    /\ UNCHANGED <<now, roundVars, statusVars, filterVars, normVars, weekendMatches, shown, cacheVars>>

\* matches.map of normalizeMatches reaches the next match: the normalizer,
\* and determineStatus in it, read the clock
RequestNormalizeOne ==
    /\ request.pc = "normalize"
    /\ Len(request.normalized) < Len(request.selected)
    /\ LET match  == RawB(request.selected[Len(request.normalized) + 1])
           result == NormalizeOne(match, "german-bundesliga", leagueArg, roundArg,
                                  localOffset, now, "random1")
       IN  request' = IF result.error # ""
                      THEN [request EXCEPT !.pc = "failed"]
                      ELSE [request EXCEPT !.normalized = Append(@, result.match)]
    /\ UNCHANGED <<now, roundVars, statusVars, filterVars, normVars, weekendMatches, shown, cacheVars>>

\* the tail of normalizeMatches (filterRelevantMatches reads the clock),
\* then the mock odds and the answer
RequestFinish ==
    /\ request.pc = "normalize"
    /\ Len(request.normalized) = Len(request.selected)
    /\ \E random \in Randoms :
          LET sorted == FilterThenSort(request.normalized, now)
          IN  request' = [request EXCEPT !.pc = "done",
                             !.answer = [i \in 1..Len(sorted) |-> WithMockOdds(sorted[i], random)]]
    /\ UNCHANGED <<now, roundVars, statusVars, filterVars, normVars, weekendMatches, shown, cacheVars>>

NextRound  == Tick \/ UnifiedHandler \/ BundesligaGET \/ MainGET
NextStatus == Tick \/ DetermineStatusCall \/ CalcMatchStatusCall
NextFilter == \/ FilterCall \/ SortCall \/ FilterThenSortCall
              \/ UtilsFilterCall \/ UtilsSortCall \/ UtilsFilterThenSortCall
              \/ BundesligaSelectCall \/ Again
NextNormalize == NormalizeAustrianCall \/ NormalizeGermanCall \/ NormalizePinnacleCall
NextDispatch  == NormalizeMatchesCall \/ AttachOddsCall
NextParse  == ParseUTCTimeCall \/ MainRouteParseCall \/ RouteParseCall
NextFlagRound == SeasonTick \/ AustrianGET \/ ChampionshipGET \/ LeagueOneGET
NextCache == \/ CacheTick \/ SetCall \/ GetCall \/ HasCall \/ DeleteCall \/ ClearCall
             \/ CleanupCall \/ SizeCall \/ GetOpenLigaFixturesCall
NextRequest == Tick \/ RequestStart \/ RequestNormalizeOne \/ RequestFinish
NextStatusOrder == \/ Tick \/ DetermineStatusCall \/ CalcMatchStatusCall
                   \/ GetMatchStatusCall \/ DisplayStatusCall
Next       == \/ NextRound \/ NextStatus \/ NextFilter \/ NextNormalize \/ NextDispatch \/ NextParse
              \/ NextFlagRound \/ NextStatusOrder \/ NextCache \/ NextRequest

SpecRound  == InitRound /\ [][NextRound]_vars
SpecStatus == InitStatus /\ [][NextStatus]_vars
SpecFilter == InitFilter /\ [][NextFilter]_vars
SpecNormalize == InitNormalize /\ [][NextNormalize]_vars
SpecDispatch  == InitDispatch /\ [][NextDispatch]_vars
SpecParse  == InitParse /\ [][NextParse]_vars
SpecFlagRound == InitFlagRound /\ [][NextFlagRound]_vars
SpecStatusOrder == InitStatusOrder /\ [][NextStatusOrder]_vars
SpecCache  == InitCache /\ [][NextCache]_vars
SpecRequest == InitRequest /\ [][NextRequest]_vars
Spec       == Init /\ [][Next]_vars

\* the clock keeps running and the pages keep polling
FairSpecStatus ==
    /\ InitStatus /\ [][NextStatus]_vars
    /\ WF_vars(Tick) /\ WF_vars(DetermineStatusCall) /\ WF_vars(CalcMatchStatusCall)

---------------------------------------------------------------------------
(* Vocabulary of the properties *)

Range(s) == {s[i] : i \in 1..Len(s)}

Sorted(ms) == \A i, j \in 1..Len(ms) : i <= j => ms[i] <= ms[j]

\* the latest kickoff of a non-empty group
LatestKickoff(group) == CHOOSE k \in Range(group) : \A x \in Range(group) : x <= k

\* a non-empty group is open at t while t is before its latest kickoff plus 120 minutes
Open(group, t) == group # <<>> /\ t < LatestKickoff(group) + 120 * 60 * 1000

\* every match of the group kicked off at least 120 minutes before t
Over(group, t) == \A k \in Range(group) : t - k >= 120 * 60 * 1000

\* the groups of the unified route, numbered from 1
NumGroups == (Len(matches) + matchesPerRound - 1) \div matchesPerRound
Group(g)  == SubSeq(matches, (g - 1) * matchesPerRound + 1,
                    Min(g * matchesPerRound, Len(matches)))

\* the rounds of the two Bundesliga routes, numbered from 6
BLRounds     == StartRound..LastRound
BLGroup(r)   == getMatchesForRound(allMatches, r)
MainGroup(r) == MainRoundSlice(allMatches, Round6Start + (r - StartRound) * BLMatchesPerRound)

Asked(handler) == roundResp.handler = handler /\ roundResp.fresh

\* elapsed time of the classified match at the current clock value
Elapsed == now - kickoffTime
Minutes(m) == m * 60 * 1000
Cancelled == flags.cancelled = "true"
Finished  == flags.finished = "true"
NoFlagSet == \A f \in {"finished", "started", "cancelled", "ongoing"} : flags[f] # "true"

---------------------------------------------------------------------------
(* Round selection *)

C2_RoundMonotonicity ==
    [][(roundResp.handler # "none" /\ roundResp'.handler = roundResp.handler)
          => roundResp'.round >= roundResp.round]_vars

\* the unified route has moved on to the third round
C2_Witness ==
    /\ Asked("unified") /\ roundResp.round = 3
    /\ Open(Group(3), now) /\ now > 0

\* C3: when every group of a non-empty list is past its latest kickoff plus
\* 120 minutes, the selector answers the last existing group, with its matches.
C3_TerminalRound ==
    /\ (Asked("unified") /\ matches # <<>> /\ \A g \in 1..NumGroups : ~Open(Group(g), now)) =>
          /\ roundResp.round = NumGroups
          /\ roundResp.roundMatches = Group(NumGroups)
          /\ roundResp.roundMatches # <<>>
    /\ (Asked("bundesliga") /\ BLGroup(StartRound) # <<>>
          /\ \A r \in BLRounds : ~Open(BLGroup(r), now)) =>
          /\ roundResp.roundMatches # <<>>
          /\ BLGroup(roundResp.round) # <<>>
          /\ \A r \in BLRounds : r > roundResp.round => BLGroup(r) = <<>>
    /\ (Asked("main") /\ MainGroup(StartRound) # <<>>
          /\ \A r \in BLRounds : ~Open(MainGroup(r), now)) =>
          /\ roundResp.roundMatches # <<>>
          /\ MainGroup(roundResp.round) # <<>>
          /\ \A r \in BLRounds : r > roundResp.round => MainGroup(r) = <<>>

\* C4: when the selector answers group r, every match of every earlier group
\* kicked off at least 120 minutes before now, whatever the order inside a group.
C4_EarlierRoundsOver ==
    /\ Asked("unified") =>
          \A g \in 1..(roundResp.round - 1) : Over(Group(g), now)
    /\ Asked("bundesliga") =>
          \A r \in StartRound..(roundResp.round - 1) : Over(BLGroup(r), now)
    /\ Asked("main") =>
          \A r \in StartRound..(roundResp.round - 1) : Over(MainGroup(r), now)

---------------------------------------------------------------------------
(* Status classification *)

Classified(st) == st.status # "none" /\ st.fresh

\* C5: with no upstream flag set, a match 0 <= elapsed < 105 minutes after
\* kickoff is LIVE and one 105 <= elapsed < 120 minutes after kickoff is FINISHED.
C5_TimeOnlyClassification ==
    /\ (Classified(dsStatus) /\ NoFlagSet /\ kickoffTime # NaN) =>
          /\ (0 <= Elapsed /\ Elapsed < Minutes(105)) => dsStatus.status = "LIVE"
          /\ (Minutes(105) <= Elapsed /\ Elapsed < Minutes(120)) => dsStatus.status = "FINISHED"
    /\ (Classified(cmStatus) /\ cacheStatus = "undefined" /\ kickoffTime # NaN) =>
          /\ (0 <= Elapsed /\ Elapsed < Minutes(105)) => cmStatus.status = "LIVE"
          /\ (Minutes(105) <= Elapsed /\ Elapsed < Minutes(120)) => cmStatus.status = "FINISHED"

\* C6: a match that kicked off 120 minutes or more before now and is not
\* cancelled is FINISHED, also with no flags or all flags false.
C6_StaleMatchFinished ==
    /\ (Classified(dsStatus) /\ ~Cancelled /\ kickoffTime # NaN /\ Elapsed >= Minutes(120))
          => dsStatus.status = "FINISHED"
    /\ (Classified(cmStatus) /\ cacheStatus = "undefined" /\ kickoffTime # NaN
          /\ Elapsed >= Minutes(120))
          => cmStatus.status = "FINISHED"

\* C7: the classifier answers CANCELLED when the cancelled flag is true, and
\* FINISHED when cancelled is not true and the finished flag is true, whatever
\* the kickoff, the clock and the other flags.
C7_FlagPriority ==
    dsStatus.status # "none" =>
        /\ Cancelled => dsStatus.status = "CANCELLED"
        /\ (~Cancelled /\ Finished) => dsStatus.status = "FINISHED"

\* cancelled wins over finished, started and a kickoff in the past
C7_Witness ==
    /\ Classified(dsStatus)
    /\ Cancelled /\ Finished /\ flags.started = "true"
    /\ kickoffTime # NaN /\ Elapsed = Minutes(30)
    /\ dsStatus.status = "CANCELLED"

\* C8: a match whose kickoff is strictly after now and that is neither
\* cancelled nor finished is SCHEDULED, whatever started and ongoing say.
C8_FutureMatchScheduled ==
    /\ (Classified(dsStatus) /\ kickoffTime # NaN /\ now < kickoffTime
          /\ ~Cancelled /\ ~Finished)
          => dsStatus.status = "SCHEDULED"
    /\ (Classified(cmStatus) /\ kickoffTime # NaN /\ now < kickoffTime)
          => cmStatus.status = "SCHEDULED"

\* C9: for a match that is not cancelled, whatever the fixed flags, the
\* classified status eventually becomes FINISHED and stays FINISHED.
C9_StatusNeverStuck ==
    ~Cancelled => <>[](dsStatus.status = "FINISHED" /\ cmStatus.status = "FINISHED")

\* C10: every classification terminates without raising and answers one of
\* the four statuses.
C10_StatusTotality ==
    /\ dsStatus.status # "none" => dsStatus.status \in Statuses
    /\ cmStatus.status # "none" => cmStatus.status \in Statuses

\* an unparseable kickoff and no flags at all are classified too
C10_Witness ==
    /\ kickoffTime = NaN /\ flags = NoFlags /\ cacheStatus = "undefined"
    /\ Classified(dsStatus) /\ Classified(cmStatus)
    /\ dsStatus.status \in Statuses /\ cmStatus.status \in Statuses

---------------------------------------------------------------------------
(* Vocabulary of the filter and sorter properties *)

FilterOps == {"filter", "filterThenSort", "utilsFilter", "utilsFilterThenSort"}
SortOps   == {"sort", "filterThenSort", "utilsSort", "utilsFilterThenSort"}

Kept(match) == match \in Range(fsOut.matches)
ElapsedOf(match) == now - match.kickoffTime
IsLive(match) == match.status = "LIVE"
SameRank(a, b) == IsLive(a) <=> IsLive(b)

---------------------------------------------------------------------------
(* Relevance filter and sorter *)

\* C11: the relevance filter never removes a match whose status is not
\* FINISHED, however long ago its kickoff was.
C11_OnlyFinishedDropped ==
    fsOut.op \in FilterOps =>
        \A match \in Range(xs) : match.status # "FINISHED" => Kept(match)

C13_SortOrder ==
    fsOut.op \in SortOps =>
        LET out == fsOut.matches
        IN  /\ \A i, j \in 1..Len(out) : i < j =>
                  /\ ~ (~ IsLive(out[i]) /\ IsLive(out[j]))
                  /\ SameRank(out[i], out[j]) => out[i].kickoffTime <= out[j].kickoffTime
                  /\ (SameRank(out[i], out[j]) /\ out[i].kickoffTime = out[j].kickoffTime)
                        => out[i].id < out[j].id
            /\ fsOut.op \in {"sort", "utilsSort"} =>
                  (Len(out) = Len(xs) /\ Range(out) = Range(xs))

C13_Witness ==
    /\ fsOut.op = "utilsSort"
    /\ Len(fsOut.matches) = 3
    /\ xs # fsOut.matches
    /\ IsLive(fsOut.matches[1]) /\ fsOut.matches[1].id = 3
    /\ fsOut.matches[2].kickoffTime = fsOut.matches[3].kickoffTime
    /\ fsOut.matches[2].status # fsOut.matches[3].status

\* C14: filter-then-sort applied to the result of filter-then-sort at the
\* same instant returns that same list, same elements in the same order.
C14_FilterSortIdempotent ==
    fsTwice.op \in {"filterThenSort", "utilsFilterThenSort"} =>
        fsTwice.matches = fsOut.matches

C14_Witness ==
    /\ fsTwice.op = "filterThenSort"
    /\ Len(xs) = 3
    /\ Len(fsOut.matches) = 2
    /\ fsOut.matches[1].id > fsOut.matches[2].id
    /\ fsTwice.matches = fsOut.matches

---------------------------------------------------------------------------
(* Vocabulary of the normalizer properties *)

Done(out) == out.error = ""

\* the first fixture of the payload and its home team as upstream wrote it
Fixture  == fixtures[1]
Upstream == fixtures[1].home

HasUppercase(str)  == \E i \in 1..Len(str) : \E k \in 1..Len(UpperAlphabet) : str[i] = UpperAlphabet[k]
HasWhitespace(str) == \E i \in 1..Len(str) : str[i] \in Whitespace

\* the slugs and the initials of the team names of the model, written out
SlugOf(name) ==
    CASE name = <<"R", "B", " ", "S", "a", "l", "z", "b", "u", "r", "g">> ->
            <<"r", "b", "-", "s", "a", "l", "z", "b", "u", "r", "g">>
      [] name = <<"l", "a", "s", "k">> -> <<"l", "a", "s", "k">>
      [] name = <<"S", "K", " ", " ", "R", "a", "p", "i", "d", "\t", "W", "i", "e", "n">> ->
            <<"s", "k", "-", "r", "a", "p", "i", "d", "-", "w", "i", "e", "n">>
      [] name = <<"a", " ", "b", " ", "c", " ", "d">> -> <<"a", "-", "b", "-", "c", "-", "d">>
      [] name = <<>> -> <<>>

\* a fixture is bad when its kickoff timestamp is missing or no date
BadRecord(f) == f.time.kind # "iso"
GoodRecords  == SelectSeq(fixtures, LAMBDA f : ~ BadRecord(f))

\* the instant a timestamp writes: its clock reading taken as UTC when it
\* carries no designator, shifted by its offset otherwise
InstantWritten(ts) == IF ts.zone = "" THEN ts.wall ELSE ts.wall - ZoneOffsetMs(ts.zone)

---------------------------------------------------------------------------
(* Normalization *)

\* C15: a Shape-A and a Shape-B record of the same fixture, normalized with
\* the same league descriptor at the same instant, give normalized matches
\* equal in every field except possibly bestOdds.
C15_NormalizationConvergence ==
    (Done(outA) /\ Done(outB) /\ leagueArg # Undefined /\ Fixture.flags.ongoing # "true") =>
        [outA.match EXCEPT !.bestOdds = Undefined] = [outB.match EXCEPT !.bestOdds = Undefined]

\* C16: wherever a raw kickoff becomes an instant, a timestamp without UTC
\* marker and without numeric offset is read as UTC, and a timestamp with a
\* marker or an offset, positive or negative, is read as written.
C16_KickoffParsing ==
    (parsed.by # "none" /\ Fixture.time.kind = "iso") =>
        (parsed.error = "" /\ parsed.time = InstantWritten(Fixture.time))

\* C17: when records of a batch have a missing or unparseable kickoff
\* timestamp, normalizing the batch does not raise and returns what it
\* returns for the batch without those records.
C17_BadRecordIsolation ==
    (outBatch.source \in SupportedSources /\ response = NoAnswer) =>
        /\ outBatch.error = ""
        /\ \E random \in Randoms :
              outBatch.matches =
                  normalizeMatches(RawBatch(GoodRecords, outBatch.source, localOffset),
                                   outBatch.source, leagueArg, roundArg, localOffset, now,
                                   random).matches

\* C18: called with a source tag that is not a supported one, the dispatcher
\* signals an error and returns no normalized match.
C18_UnsupportedSourceRejected ==
    (outBatch.source \notin SupportedSources \cup {"none"} /\ fixtures # <<>>) =>
        (outBatch.error # "" /\ outBatch.matches = <<>>)

\* C19: a normalized team's id is the upstream id when the record has one and
\* the slug of the team name otherwise (lowercase, whitespace replaced by
\* hyphens); the same name gives the same id in every normalizer, and a
\* Shape-C team, a plain string, always gets the slug.
C19_TeamIdDerivation ==
    /\ \A out \in {outA, outB} :
          Done(out) =>
              /\ out.match.homeTeam.id =
                    (IF Upstream.id # <<>> THEN Upstream.id ELSE SlugOf(Upstream.name))
              /\ Upstream.id = <<>> =>
                    (~ HasUppercase(out.match.homeTeam.id) /\ ~ HasWhitespace(out.match.homeTeam.id))
    /\ Done(outC) => outC.match.homeTeam.id = SlugOf(Upstream.name)
    /\ (Done(outA) /\ Done(outB)) => outA.match.homeTeam.id = outB.match.homeTeam.id

C19_Witness ==
    /\ Done(outA) /\ Done(outB) /\ Done(outC)
    /\ Upstream.id = <<>>
    /\ HasUppercase(Upstream.name) /\ HasWhitespace(Upstream.name)
    /\ outA.match.homeTeam.id # Upstream.name

\* C20: a normalized team's shortName is the upstream short name when the
\* record has one, and otherwise the initials of the words of the name,
\* uppercased and cut to 3 characters.
C20_ShortName ==
    \A out \in {outA, outB} :
        Done(out) =>
            out.match.homeTeam.shortName =
                (IF Upstream.shortName # <<>> THEN Upstream.shortName
                 ELSE generateShortName(Upstream.name))

\* C21: the Shape-A record 'RB Salzburg' - 'Rapid Wien' with utcTime
\* 2025-08-22T18:30:00Z, finished and started false, normalized at
\* 2025-08-20T00:00:00Z, has status SCHEDULED, homeTeam.id 'rb-salzburg' and
\* homeTeam.shortName 'RBS'.
C21_Scenario1 ==
    (fixtures = <<Scenario1Fixture>> /\ now = 0 /\ outA # NoCall) =>
        /\ Done(outA)
        /\ outA.match.status = "SCHEDULED"
        /\ outA.match.homeTeam.id = <<"r", "b", "-", "s", "a", "l", "z", "b", "u", "r", "g">>
        /\ outA.match.homeTeam.shortName = <<"R", "B", "S">>

\* C21, amended: the same record at the same instant has status SCHEDULED,
\* homeTeam.id 'rb-salzburg' and homeTeam.shortName 'RS', the initials of its
\* two words.
C21_Scenario1Initials ==
    (fixtures = <<Scenario1Fixture>> /\ now = 0 /\ outA # NoCall) =>
        /\ Done(outA)
        /\ outA.match.status = "SCHEDULED"
        /\ outA.match.homeTeam.id = <<"r", "b", "-", "s", "a", "l", "z", "b", "u", "r", "g">>
        /\ outA.match.homeTeam.shortName = <<"R", "S">>

C21_Witness ==
    /\ fixtures = <<Scenario1Fixture>>
    /\ now = 0
    /\ Done(outA)
    /\ outA.match.kickoffTime = Scenario1KickoffMinute * MINUTES_IN_MS

\* C22: with no round override and no round in the raw record the
\* normalized round is undefined, and with no season in the raw record the
\* normalized season is undefined; no normalizer invents a label.
C22_NoInventedRoundOrSeason ==
    \A out \in {outA, outB, outC} :
        Done(out) =>
            /\ (roundArg = Undefined /\ Fixture.round = Undefined) => out.match.round = Undefined
            /\ Fixture.season = Undefined => out.match.season = Undefined

\* C24: in every normalized match whose status is SCHEDULED both scores are
\* null, whatever score the upstream record carries.
C24_NoScoreBeforeKickoff ==
    \A out \in {outA, outB} :
        (Done(out) /\ out.match.status = "SCHEDULED") =>
            (out.match.homeTeam.score = "null" /\ out.match.awayTeam.score = "null")

\* C23: every match normalizeMatches returns, whatever the source tag, has
\* a league.
C23_LeagueDefined ==
    outBatch.source # "none" =>
        \A i \in 1..Len(outBatch.matches) : outBatch.matches[i].league # Undefined

\* C25: attaching odds leaves the normalized matches as normalizeMatches
\* constructed them; the answer is made of new values.
C25_ImmutableEnrichment ==
    [][response' # response => outBatch'.matches = outBatch.matches]_vars

---------------------------------------------------------------------------
(* Flag-based league routes *)

FlagHandlers == {"austrian", "championship", "league1"}

\* the matches of the round a flag-based route answered
AnsweredRound ==
    MatchesByRound(weekendMatches,
                   IF roundResp.handler = "austrian" THEN AustrianLastRound ELSE EnglishLastRound,
                   roundResp.round)

\* C27: for a fixed cache the active round a flag-based league route
\* chooses never decreases as the clock advances; in particular the route
\* does not fall back to an earlier round once no round has a live or an
\* upcoming match.
C27_FlagRoundMonotonicity ==
    [][(roundResp.handler \in FlagHandlers /\ roundResp'.handler = roundResp.handler)
          => roundResp'.round >= roundResp.round]_vars

\* C28: the Austrian Bundesliga and Championship routes choose a round
\* whose matches are all flagged finished only while the clock is before
\* the round's latest kickoff plus 120 minutes.
C28_FinishedRoundGrace ==
    (/\ roundResp.handler \in {"austrian", "championship"}
     /\ roundResp.fresh
     /\ AnsweredRound # <<>>
     /\ EveryFinished(AnsweredRound))
        => now < MaxUtcTime(AnsweredRound) + 120 * MINUTES_IN_MS

---------------------------------------------------------------------------
(* Order of the statuses *)

\* the order a match passes through its statuses
Rank(status) ==
    CASE status = "SCHEDULED" -> 0
      [] status = "LIVE"      -> 1
      [] status = "FINISHED"  -> 2
      [] OTHER                -> 3

\* C29: for a fixed match and fixed flags, the status each status function
\* answers never moves backward in the order SCHEDULED, LIVE, FINISHED as
\* the clock advances, the instants of kickoff and of kickoff + 120 minutes
\* included.
C29_StatusNeverBackward ==
    [][/\ (dsStatus.status # "none" /\ dsStatus'.status # "none")
              => Rank(dsStatus'.status) >= Rank(dsStatus.status)
       /\ (cmStatus.status # "none" /\ cmStatus'.status # "none")
              => Rank(cmStatus'.status) >= Rank(cmStatus.status)
       /\ (shown.by # "none" /\ shown'.by = shown.by /\ shown.included /\ shown'.included)
              => Rank(shown'.status) >= Rank(shown.status)]_vars

---------------------------------------------------------------------------
(* SimpleCache *)

\* the value the history says a get of the key answers at the current
\* instant: that of the last set, unless the key was deleted or the cache
\* cleared since, or the clock is past the instant of the set plus its ttl
Remembered(key) ==
    IF ~written[key].removed /\ now <= written[key].at + written[key].ttl
    THEN written[key].value
    ELSE "null"

\* C30: after any sequence of set, get, has, delete, clear, cleanup and
\* size calls and clock advances, get(k) answers the value of the most
\* recent set of k iff no delete(k) or clear came after it and the clock is
\* not past the set's instant plus its ttl, and null otherwise; has(k)
\* agrees with it; and getOpenLigaFixtures answers from the cache, without
\* a new fetch, exactly when the cache remembers the key.
C30_CacheGet ==
    /\ \A key \in CacheKeys : get(cache, key, now).value = Remembered(key)
    /\ (got.fresh /\ got.op = "get") => got.value = Remembered(got.key)
    /\ (got.fresh /\ got.op = "has") => (got.value = "true" <=> Remembered(got.key) # "null")
    /\ (got.fresh /\ got.op = "fetch" /\ got.from = "cache") => got.value = Remembered(got.key)
    /\ (got.fresh /\ got.op = "fetch" /\ got.from = "upstream")
           => (written[got.key].at = now /\ got.value = Remembered(got.key))
    /\ (got.fresh /\ got.op = "fetch" /\ got.from = "error") => Remembered(got.key) = "null"

\* a second fetch of the same key, at the last instant of the five
\* minutes, was served from the cache
C30_Witness ==
    /\ got.fresh /\ got.op = "fetch" /\ got.from = "cache"
    /\ now = written[got.key].at + written[got.key].ttl
    /\ written[got.key].ttl = DefaultTTL

---------------------------------------------------------------------------
(* One instant per request *)

\* the matches of an answer and the status each was given
StatusById(ms) == [i \in 1..Len(ms) |-> <<ms[i].id, ms[i].status>>]

\* the answer when selection, classification and relevance filter all work
\* against the one instant t
SingleInstant(t) ==
    normalizeMatches(RawBatch(RouteSelected(fixtures, localOffset, t), "german-bundesliga",
                              localOffset),
                     "german-bundesliga", leagueArg, roundArg, localOffset, t, "random1").matches

\* C26: the result of a request depends on its input and one instant only:
\* every match of the answer is selected, classified and filtered against
\* the instant the route read, no step working against a later reading of
\* the clock.
C26_OneInstantPerRequest ==
    request.pc = "done" => StatusById(request.answer) = StatusById(SingleInstant(request.routeNow))

====
